---- MODULE Spec2Model ----
(***************************************************************************)
(* Model of the gateway's orchestration core:                              *)
(*   - the token codec            (src/serverrs/src/encryption.rs)         *)
(*   - settings loading           (src/serverrs/src/config.rs)             *)
(*   - the local VPN failover     (src/serverrs/src/vpn.rs)                *)
(*   - the VpnManager for fleets  (src/serverrs/src/vpn.rs)                *)
(*   - the metadata cache         (src/serverrs/src/cache.rs, main.rs)     *)
(*   - sessions and their formats (src/serverx-rs/src/main.rs)             *)
(*   - the streaming proxies      (src/serverrs/src/stream.rs,             *)
(*                                 src/serverx-rs/src/main.rs)             *)
(*   - extraction errors          (src/serverrs/src/ytdlp.rs, main.rs)     *)
(* Text is modelled as sequences of bytes (0..255), tokens as sequences of *)
(* base64 symbols (0..63, padding 64, any other character 65), wall-clock  *)
(* time as an integer number of milliseconds since the epoch.              *)
(***************************************************************************)
EXTENDS Integers, Sequences, FiniteSets, TLC

VARIABLES
    clock,            \* SystemTime::now(), in milliseconds since UNIX_EPOCH
    booted,           \* Settings::from_env has run
    encryption_key,   \* Settings.encryption_key (bytes)
    issued,           \* encrypt has been called
    plain,            \* the text given to encrypt
    expiry,           \* expiry_minutes: NoExpiry for None, else the minutes
    issuedAt,         \* clock value at the encrypt call
    token,            \* what encrypt produced: [kind, token]
    presented,        \* the token string handed to decrypt
    decrypted,        \* decrypt has been called
    decKey,           \* key of the last decrypt call
    decAt,            \* clock value at the last decrypt call
    result,           \* what the last decrypt call returned: [kind, text]
    cleanResult,      \* (history) what that call returns for the token as issued
    wasExpired,       \* (history) the issuing key has had the token rejected as expired
    last_reconnect,   \* VpnReconnectState.last_reconnect (ms)
    attempts,         \* VpnReconnectState.attempts
    lock,             \* holder of the mutex around VpnReconnectState, 0 when free
    pc,               \* where each call of trigger_local_vpn_reconnect stands
    attempt,          \* the local `attempt` of each call
    sigAt,            \* the `now` each call read under the lock
    deadline,         \* end of the call's backoff sleep, then of its request timeout
    ret,              \* what each call returned
    dispatched,       \* (history) the call has sent its request to the control API
    response,         \* (history) what the control API answered to the call
    fails,            \* (history) requests that failed since the last one that succeeded
    fleet_last,       \* VpnManager.last_reconnect: instance id -> time of the last reconnect (ms)
    country,          \* the egress country configured in each instance's VPN client
    fpc,              \* where each call into the VpnManager stands
    fop,              \* the method each call entered through
    fid,              \* the instance_id each call was given
    rotating,         \* the call is inside rotate_server
    new_country,      \* the new_country argument of the call's rotate_server
    target,           \* target_country of the call's rotate_server
    fdeadline,        \* end of the call's sleep, or of its pending request's timeout
    fret,             \* what each call returned
    trace,            \* (history) the requests each call has issued, in order, the
                      \* answers to its stop and start requests, and what came of
                      \* building a client and of changing the country
    fcalls,           \* (history) how many calls into the VpnManager have been made
    redis_on,         \* serverrs: AppState.redis is Some (the connection at startup worked)
    meta,             \* serverrs: the metadata entries in Redis: url -> [value, exp]
    fetch,            \* serverrs: (history) the last call of fetch_tiktok_data
    sess,             \* serverx-rs: the session records in Redis: id -> [data, exp]
    next_sid,         \* serverx-rs: the session id the next Uuid::new_v4 stands for
    dl,               \* serverx-rs: (history) the last /download request and its answer
    st,               \* serverx-rs: (history) the last /stream request and its answer
    px,               \* serverrs: (history) the last /download or /stream request and its answer
    req,              \* serverrs: the request of each task whose extraction failed, and its answer
    conn              \* serverx-rs: the mutex of the store connection: its holder,
                      \* and where each handler stands in its round trip to the store

codecVars == <<booted, encryption_key, issued, plain, expiry, issuedAt, token,
               presented, decrypted, decKey, decAt, result, cleanResult, wasExpired>>

vpnVars == <<last_reconnect, attempts, lock, pc, attempt, sigAt, deadline, ret,
             dispatched, response, fails>>

fleetVars == <<fleet_last, country, fpc, fop, fid, rotating, new_country, target,
               fdeadline, fret, trace, fcalls>>

cacheVars == <<redis_on, meta, fetch, sess, next_sid, dl, st>>

gateVars == <<px, req, conn>>

\* everything but the clock
stateVars == <<codecVars, vpnVars, fleetVars, cacheVars, gateVars>>

vars == <<clock, stateVars>>

\* what the steps of one component leave alone
nonCodecVars == <<vpnVars, fleetVars, cacheVars, gateVars>>
nonVpnVars == <<codecVars, fleetVars, cacheVars, gateVars>>
nonFleetVars == <<codecVars, vpnVars, cacheVars, gateVars>>
nonCacheVars == <<codecVars, vpnVars, fleetVars, gateVars>>
nonGateVars == <<codecVars, vpnVars, fleetVars, cacheVars>>

----------------------------------------------------------------------------
(* Bounds of the model                                                     *)

MaxLen == 3            \* longest plaintext given to encrypt
MaxClock == 61000      \* the clock stops advancing here (ms)
FineWindow == 1000     \* half-second ticks happen in this part of a minute
TamperMaxLen == 2      \* longest plaintext in the tamper specification
NCallers == 2          \* concurrent calls of trigger_local_vpn_reconnect
VpnTicks == 10         \* how many tick steps the failover clock advances
TickSecs == 10         \* seconds per tick step of the failover clock
NFleetCallers == 2     \* concurrent calls into the VpnManager
FleetTicks == 2        \* how many tick steps the VpnManager's clock advances
FleetTickSecs == 15    \* seconds per tick step of the VpnManager's clock
MaxFleetCalls == 2     \* calls into the VpnManager in one run
MaxSessions == 1       \* sessions that /download creates in one run
CacheTicks == 4        \* how many tick steps the caches' clock advances
CacheTickSecs == 100   \* seconds per tick step of the caches' clock
MaxSize == 2           \* heights, bitrates and image sizes of formats
MaxFormats == 2        \* formats at the top level of an extraction result
MaxEntries == 2        \* entries of a playlist
MaxPhrases == 2        \* phrases of an error message of the extractor
NBlockCallers == 1     \* tasks whose extractions fail
NStoreHandlers == 2    \* handlers of serverx-rs at the store at once
StoreTicks == 3        \* seconds the store clock advances

----------------------------------------------------------------------------
(* Bytes and characters                                                    *)

MsPerSec == 1000
SecsPerMinute == 60

ChPlus == 43
ChZero == 48
ChNine == 57
ChPipe == 124

NoExpiry == -1

RECURSIVE XorByte(_, _)
XorByte(a, b) ==
    IF a = 0 THEN b
    ELSE IF b = 0 THEN a
    ELSE 2 * XorByte(a \div 2, b \div 2) + ((a + b) % 2)

\* text_bytes.iter().enumerate().map(|(i, &b)| b ^ key_bytes[i % key_bytes.len()])
XorCycle(bytes, key) ==
    [i \in 1..Len(bytes) |-> XorByte(bytes[i], key[((i - 1) % Len(key)) + 1])]

\* i % key_bytes.len() with an empty key divides by zero as soon as one byte
\* is mapped
XorPanics(bytes, key) == Len(key) = 0 /\ Len(bytes) > 0

----------------------------------------------------------------------------
(* base64, URL-safe alphabet, canonical padding                            *)

B64Pad == 64
B64Invalid == 65

B64Encode(bytes) ==
    LET n == Len(bytes)
        At(i) == IF i <= n THEN bytes[i] ELSE 0
        Sym(j) ==
            LET g == (j - 1) \div 4
                k == (j - 1) % 4
                b0 == At(3 * g + 1)
                b1 == At(3 * g + 2)
                b2 == At(3 * g + 3)
            IN  CASE k = 0 -> b0 \div 4
                  [] k = 1 -> (b0 % 4) * 16 + (b1 \div 16)
                  [] k = 2 -> IF 3 * g + 2 > n THEN B64Pad
                              ELSE (b1 % 16) * 4 + (b2 \div 64)
                  [] k = 3 -> IF 3 * g + 3 > n THEN B64Pad
                              ELSE b2 % 64
    IN  [j \in 1..(4 * ((n + 2) \div 3)) |-> Sym(j)]

\* number of padding symbols at the end of the input
B64PadCount(syms) ==
    LET n == Len(syms)
    IN  IF n >= 2 /\ syms[n] = B64Pad /\ syms[n - 1] = B64Pad THEN 2
        ELSE IF n >= 1 /\ syms[n] = B64Pad THEN 1
        ELSE 0

\* what the engine accepts: alphabet symbols only, padding only as the
\* canonical tail of the last quantum, no non-zero trailing bits
B64Valid(syms) ==
    LET n == Len(syms)
        p == B64PadCount(syms)
    IN  /\ n % 4 = 0
        /\ \A i \in 1..(n - p) : syms[i] < B64Pad
        /\ p = 2 => syms[n - 2] % 16 = 0
        /\ p = 1 => syms[n - 1] % 4 = 0

B64Decode(syms) ==
    LET n == Len(syms)
        p == B64PadCount(syms)
        outLen == 3 * (n \div 4) - p
        S(j) == IF syms[j] >= B64Pad THEN 0 ELSE syms[j]
        Byte(i) ==
            LET g == (i - 1) \div 3
                k == (i - 1) % 3
                s0 == S(4 * g + 1)
                s1 == S(4 * g + 2)
                s2 == S(4 * g + 3)
                s3 == S(4 * g + 4)
            IN  CASE k = 0 -> s0 * 4 + (s1 \div 16)
                  [] k = 1 -> (s1 % 16) * 16 + (s2 \div 4)
                  [] k = 2 -> (s2 % 4) * 64 + s3
    IN  [i \in 1..outLen |-> Byte(i)]

----------------------------------------------------------------------------
(* UTF-8 validation (String::from_utf8)                                    *)

IsCont(b) == b >= 128 /\ b <= 191

RECURSIVE Utf8ValidFrom(_, _)
Utf8ValidFrom(bytes, i) ==
    LET n == Len(bytes)
        b == bytes[i]
        Cont(j) == j <= n /\ IsCont(bytes[j])
        In(j, lo, hi) == j <= n /\ bytes[j] >= lo /\ bytes[j] <= hi
    IN  IF i > n THEN TRUE
        ELSE IF b <= 127 THEN Utf8ValidFrom(bytes, i + 1)
        ELSE IF b >= 194 /\ b <= 223
            THEN Cont(i + 1) /\ Utf8ValidFrom(bytes, i + 2)
        ELSE IF b = 224
            THEN In(i + 1, 160, 191) /\ Cont(i + 2) /\ Utf8ValidFrom(bytes, i + 3)
        ELSE IF (b >= 225 /\ b <= 236) \/ b = 238 \/ b = 239
            THEN Cont(i + 1) /\ Cont(i + 2) /\ Utf8ValidFrom(bytes, i + 3)
        ELSE IF b = 237
            THEN In(i + 1, 128, 159) /\ Cont(i + 2) /\ Utf8ValidFrom(bytes, i + 3)
        ELSE IF b = 240
            THEN In(i + 1, 144, 191) /\ Cont(i + 2) /\ Cont(i + 3)
                 /\ Utf8ValidFrom(bytes, i + 4)
        ELSE IF b >= 241 /\ b <= 243
            THEN Cont(i + 1) /\ Cont(i + 2) /\ Cont(i + 3)
                 /\ Utf8ValidFrom(bytes, i + 4)
        ELSE IF b = 244
            THEN In(i + 1, 128, 143) /\ Cont(i + 2) /\ Cont(i + 3)
                 /\ Utf8ValidFrom(bytes, i + 4)
        ELSE FALSE

Utf8Valid(bytes) == Utf8ValidFrom(bytes, 1)

----------------------------------------------------------------------------
(* Decimal text of a u64 (format!("{expiry_time}")) and str::parse::<u64>  *)

RECURSIVE ToDigits(_)
ToDigits(n) ==
    IF n < 10 THEN <<ChZero + n>>
    ELSE Append(ToDigits(n \div 10), ChZero + (n % 10))

IsDigit(b) == b >= ChZero /\ b <= ChNine

RECURSIVE DigitsValue(_)
DigitsValue(s) ==
    IF Len(s) = 0 THEN 0
    ELSE 10 * DigitsValue(SubSeq(s, 1, Len(s) - 1)) + (s[Len(s)] - ChZero)

\* u64::from_str: one optional leading '+', then at least one decimal digit
\* and nothing else.  (Texts of the model stay far below 20 digits, so the
\* overflow error of the parser is out of reach.)
ParseDigits(s) ==
    IF Len(s) > 0 /\ s[1] = ChPlus THEN SubSeq(s, 2, Len(s)) ELSE s

ParseOk(s) ==
    LET d == ParseDigits(s)
    IN  Len(d) > 0 /\ \A i \in 1..Len(d) : IsDigit(d[i])

ParseU64(s) == DigitsValue(ParseDigits(s))

\* (mutant) rfind instead of find: the last pipe
FindPipeLast(text) ==
    IF \E i \in 1..Len(text) : text[i] = ChPipe
    THEN CHOOSE i \in 1..Len(text) :
            text[i] = ChPipe /\ \A j \in (i + 1)..Len(text) : text[j] # ChPipe
    ELSE 0

\* decrypted_text.find('|'): index of the first pipe, 0 when there is none
FindPipe(text) ==
    IF \E i \in 1..Len(text) : text[i] = ChPipe
    THEN CHOOSE i \in 1..Len(text) :
            text[i] = ChPipe /\ \A j \in 1..(i - 1) : text[j] # ChPipe
    ELSE 0

----------------------------------------------------------------------------
(* encrypt and decrypt                                                     *)

NowSecs(c) == c \div MsPerSec

Panic == [kind |-> "Panic", token |-> <<>>]

ExpiryTime(minutes, now) == now + minutes * SecsPerMinute

TextWithExpiry(text, minutes, now) ==
    IF minutes # NoExpiry
    THEN ToDigits(ExpiryTime(minutes, now)) \o <<ChPipe>> \o text
    ELSE text

encrypt(text, key, minutes, now) ==
    LET t == TextWithExpiry(text, minutes, now)
    IN  IF XorPanics(t, key) THEN Panic
        ELSE [kind |-> "Ok", token |-> B64Encode(XorCycle(t, key))]

Res(k, t) == [kind |-> k, text |-> t]

\* (mutant) the comparison is one second late
IsExpiredLate(now, expiry_time) == now > expiry_time + 1

IsExpired(now, expiry_time) == now > expiry_time

\* the expiry check on the decoded text
CheckExpiry(text, now) ==
    LET pipe_pos == FindPipe(text)
        timestamp_str == SubSeq(text, 1, pipe_pos - 1)
    IN  IF pipe_pos > 0 /\ ParseOk(timestamp_str)
        THEN IF IsExpired(now, ParseU64(timestamp_str))
             THEN Res("Expired", <<>>)
             ELSE Res("Ok", SubSeq(text, pipe_pos + 1, Len(text)))
        ELSE Res("Ok", text)

decrypt(syms, key, now) ==
    IF ~B64Valid(syms) THEN Res("BadEncoding", <<>>)
    ELSE LET bytes == B64Decode(syms)
         IN  IF XorPanics(bytes, key) THEN Res("Panic", <<>>)
             ELSE LET text == XorCycle(bytes, key)
                  IN  IF ~Utf8Valid(text) THEN Res("BadText", <<>>)
                      ELSE CheckExpiry(text, now)

----------------------------------------------------------------------------
(* Inputs of the codec specifications                                      *)

\* the characters of the texts given to encrypt: '1', '|' and 'a'
CodecAlphabet == {ChZero + 1, ChPipe, 97}

Texts(maxLen) == UNION {[1..n -> CodecAlphabet] : n \in 0..maxLen}

\* env_str("ENCRYPTION_KEY", "overflow"): the default when the variable is unset
DefaultKey == <<111, 118, 101, 114, 102, 108, 111, 119>>

\* env::var returned Err: the variable is not set (no byte string equals it)
Unset == <<256>>

\* values of the ENCRYPTION_KEY environment variable: "", "k" and the
\* two-byte character U+00E9
EnvKeys == {<<>>, <<107>>, <<195, 169>>}

\* keys handed to decrypt: those, and "kk"
DecryptKeys == EnvKeys \cup {<<107, 107>>}

ExpiryChoices == {NoExpiry, 0, 1, 2}

TickSteps == {500, 60000}

NoResult == Res("None", <<>>)

NoToken == [kind |-> "None", token |-> <<>>]

----------------------------------------------------------------------------
(* Actions of the codec                                                    *)

\* Settings::from_env: the key is whatever the environment holds, or the
\* default; nothing is validated
FromEnv(env) ==
    /\ ~booted
    /\ booted' = TRUE
    /\ encryption_key' = IF env = Unset THEN DefaultKey ELSE env
    /\ UNCHANGED <<clock, issued, plain, expiry, issuedAt, token, presented,
                   decrypted, decKey, decAt, result, cleanResult, wasExpired>>
    /\ UNCHANGED nonCodecVars

\* a call encrypt(text, &settings.encryption_key, minutes)
Encrypt(text, minutes) ==
    /\ booted
    /\ ~issued
    /\ issued' = TRUE
    /\ plain' = text
    /\ expiry' = minutes
    /\ issuedAt' = clock
    /\ token' = encrypt(text, encryption_key, minutes, NowSecs(clock))
    /\ presented' = token'.token
    /\ UNCHANGED <<clock, booted, encryption_key, decrypted, decKey, decAt, result,
                   cleanResult, wasExpired>>
    /\ UNCHANGED nonCodecVars

\* one character of the token is replaced before it is first presented
Tamper(i, sym) ==
    /\ issued
    /\ ~decrypted
    /\ token.kind = "Ok"
    /\ presented = token.token
    /\ i \in 1..Len(presented)
    /\ sym # presented[i]
    /\ presented' = [presented EXCEPT ![i] = sym]
    /\ UNCHANGED <<clock, booted, encryption_key, issued, plain, expiry, issuedAt,
                   token, decrypted, decKey, decAt, result, cleanResult, wasExpired>>
    /\ UNCHANGED nonCodecVars

\* a call decrypt(&presented, key)
Decrypt(key) ==
    /\ issued
    /\ token.kind = "Ok"
    /\ decrypted' = TRUE
    /\ decKey' = key
    /\ decAt' = clock
    /\ result' = decrypt(presented, key, NowSecs(clock))
    /\ cleanResult' = IF presented = token.token THEN result'
                      ELSE decrypt(token.token, key, NowSecs(clock))
    /\ wasExpired' = (\/ wasExpired
                      \/ (/\ key = encryption_key
                          /\ presented = token.token
                          /\ result'.kind = "Expired"))
    /\ UNCHANGED <<clock, booted, encryption_key, issued, plain, expiry, issuedAt,
                   token, presented>>
    /\ UNCHANGED nonCodecVars

\* time passes: half a second early in a minute, or a whole minute
Tick(d) ==
    /\ clock + d <= MaxClock
    /\ d < MsPerSec => (clock % (SecsPerMinute * MsPerSec)) + d <= FineWindow
    /\ clock' = clock + d
    /\ UNCHANGED stateVars

----------------------------------------------------------------------------
(* The local VPN failover: trigger_local_vpn_reconnect                     *)

VPN_RECONNECT_COOLDOWN == 30
VPN_MAX_RECONNECT_ATTEMPTS == 3
BackoffBase == 5
BackoffCap == 20
RequestTimeout == 30

Callers == 1..NCallers

Min(a, b) == IF a < b THEN a ELSE b

RECURSIVE Shl1(_)
Shl1(n) == IF n = 0 THEN 1 ELSE 2 * Shl1(n - 1)

\* (mutant) the shift is by the attempt number, not by one less
BackoffFromFirst(n) == Min(BackoffBase * Shl1(n), BackoffCap)

\* std::cmp::min(5 * (1u64 << (attempt - 1)), 20), in seconds
Backoff(n) == Min(BackoffBase * Shl1(n - 1), BackoffCap)

\* (mutant) the ceiling is not tested
CeilingReachedNever(a) == FALSE

\* (mutant) the ceiling test lets one more attempt through
CeilingReachedLate(a) == a > VPN_MAX_RECONNECT_ATTEMPTS

\* st.attempts >= VPN_MAX_RECONNECT_ATTEMPTS
CeilingReached(a) == a >= VPN_MAX_RECONNECT_ATTEMPTS

\* (mutant) the cooldown is compared in the wrong direction
CooldownActiveWrong(now, last) == last - now > VPN_RECONNECT_COOLDOWN * MsPerSec

\* (mutant) the cooldown in seconds is compared with a time in milliseconds
CooldownActiveSeconds(now, last) == now - last < VPN_RECONNECT_COOLDOWN

\* now - st.last_reconnect < VPN_RECONNECT_COOLDOWN
CooldownActive(now, last) == now - last < VPN_RECONNECT_COOLDOWN * MsPerSec

\* (mutant) every answer with a status line counts as a success
IsSuccessNotError(outcome) == outcome # "error"

\* (mutant) every answer of the control API resets the counter
IsSuccessAny(outcome) == outcome \in {"success", "status"}

\* resp.status().is_success()
IsSuccess(outcome) == outcome = "success"

\* (mutant) the attempt is not recorded when it is let through
RecordedNothing(state, now) == state

\* st.last_reconnect = now; st.attempts += 1
Recorded(state, now) == [last_reconnect |-> now, attempts |-> state.attempts + 1]

\* (mutant) a signal that is turned away restarts the cooldown
SwallowedRefreshed(state, now) == [state EXCEPT !.last_reconnect = now]

\* the early returns write nothing to the state
Swallowed(state, now) == state

\* (mutant) the guard of an admitted call lives on to the end of the call
DroppedLate(p, admitted) == IF admitted THEN p ELSE 0

\* drop(st), or the guard going out of scope at an early return
Dropped(p, admitted) == 0

\* what the request to the control API can come to: a success status, another
\* status, or a transport error (the 30 s timeout included)
Outcomes == {"success", "status", "error"}

NoCall == [p \in Callers |-> 0]

VpnStateInit ==
    /\ last_reconnect = 0
    /\ attempts = 0
    /\ lock = 0
    /\ pc = [p \in Callers |-> "idle"]
    /\ attempt = NoCall
    /\ sigAt = NoCall
    /\ deadline = NoCall
    /\ ret = [p \in Callers |-> "none"]
    /\ dispatched = [p \in Callers |-> FALSE]
    /\ response = [p \in Callers |-> "none"]
    /\ fails = 0

\* let mut st = state.lock().await
Acquire(p) ==
    /\ pc[p] = "idle"
    /\ lock = 0
    /\ lock' = p
    /\ pc' = [pc EXCEPT ![p] = "locked"]
    /\ UNCHANGED <<clock, last_reconnect, attempts, attempt, sigAt, deadline, ret,
                   dispatched, response, fails>>
    /\ UNCHANGED nonVpnVars

\* the check-and-record section, up to drop(st) or the early return
CheckAndRecord(p) ==
    /\ pc[p] = "locked"
    /\ lock = p
    /\ sigAt' = [sigAt EXCEPT ![p] = clock]
    /\ LET state == [last_reconnect |-> last_reconnect, attempts |-> attempts]
       IN  IF CeilingReached(attempts)
           THEN /\ ret' = [ret EXCEPT ![p] = "ErrMax"]
                /\ pc' = [pc EXCEPT ![p] = "done"]
                /\ last_reconnect' = Swallowed(state, clock).last_reconnect
                /\ attempts' = Swallowed(state, clock).attempts
                /\ lock' = Dropped(p, FALSE)
                /\ UNCHANGED <<attempt, deadline>>
           ELSE IF CooldownActive(clock, last_reconnect)
           THEN /\ ret' = [ret EXCEPT ![p] = "OkFalse"]
                /\ pc' = [pc EXCEPT ![p] = "done"]
                /\ last_reconnect' = Swallowed(state, clock).last_reconnect
                /\ attempts' = Swallowed(state, clock).attempts
                /\ lock' = Dropped(p, FALSE)
                /\ UNCHANGED <<attempt, deadline>>
           ELSE /\ last_reconnect' = Recorded(state, clock).last_reconnect
                /\ attempts' = Recorded(state, clock).attempts
                /\ attempt' = [attempt EXCEPT ![p] = Recorded(state, clock).attempts]
                /\ deadline' = [deadline EXCEPT ![p] =
                        IF Recorded(state, clock).attempts > 1
                        THEN clock + Backoff(Recorded(state, clock).attempts) * MsPerSec
                        ELSE clock]
                /\ lock' = Dropped(p, TRUE)
                /\ pc' = [pc EXCEPT ![p] = "backoff"]
                /\ UNCHANGED ret
    /\ UNCHANGED <<clock, dispatched, response, fails>>
    /\ UNCHANGED nonVpnVars

\* after the backoff sleep (none on the first attempt): build the client and
\* send the PUT; a client that cannot be built ends the call with an error
Dispatch(p, built) ==
    /\ pc[p] = "backoff"
    /\ clock >= deadline[p]
    /\ IF built
       THEN /\ pc' = [pc EXCEPT ![p] = "call"]
            /\ dispatched' = [dispatched EXCEPT ![p] = TRUE]
            /\ deadline' = [deadline EXCEPT ![p] = clock + RequestTimeout * MsPerSec]
            /\ UNCHANGED ret
       ELSE /\ pc' = [pc EXCEPT ![p] = "done"]
            /\ ret' = [ret EXCEPT ![p] = "ErrClient"]
            /\ UNCHANGED <<dispatched, deadline>>
    /\ UNCHANGED <<clock, last_reconnect, attempts, lock, attempt, sigAt, response,
                   fails>>
    /\ UNCHANGED nonVpnVars

\* the request completes
Respond(p, outcome) ==
    /\ pc[p] = "call"
    /\ response' = [response EXCEPT ![p] = outcome]
    /\ IF IsSuccess(outcome)
       THEN /\ pc' = [pc EXCEPT ![p] = "succeeded"]
            /\ fails' = 0
            /\ UNCHANGED ret
       ELSE /\ pc' = [pc EXCEPT ![p] = "done"]
            /\ ret' = [ret EXCEPT ![p] =
                    IF outcome = "error" THEN "ErrRequest" ELSE "OkFalse"]
            /\ fails' = fails + 1
    /\ UNCHANGED <<clock, last_reconnect, attempts, lock, attempt, sigAt, deadline,
                   dispatched>>
    /\ UNCHANGED nonVpnVars

\* let mut st = state.lock().await, on the success path
AcquireForReset(p) ==
    /\ pc[p] = "succeeded"
    /\ lock = 0
    /\ lock' = p
    /\ pc' = [pc EXCEPT ![p] = "resetting"]
    /\ UNCHANGED <<clock, last_reconnect, attempts, attempt, sigAt, deadline, ret,
                   dispatched, response, fails>>
    /\ UNCHANGED nonVpnVars

\* st.attempts = 0; Ok(true)
Reset(p) ==
    /\ pc[p] = "resetting"
    /\ lock = p
    /\ attempts' = 0
    /\ lock' = 0
    /\ ret' = [ret EXCEPT ![p] = "OkTrue"]
    /\ pc' = [pc EXCEPT ![p] = "done"]
    /\ UNCHANGED <<clock, last_reconnect, attempt, sigAt, deadline, dispatched,
                   response, fails>>
    /\ UNCHANGED nonVpnVars

\* the handler that made the call is finished; the task serves a later request
Finish(p) ==
    /\ pc[p] = "done"
    /\ pc' = [pc EXCEPT ![p] = "idle"]
    /\ attempt' = [attempt EXCEPT ![p] = 0]
    /\ sigAt' = [sigAt EXCEPT ![p] = 0]
    /\ deadline' = [deadline EXCEPT ![p] = 0]
    /\ ret' = [ret EXCEPT ![p] = "none"]
    /\ dispatched' = [dispatched EXCEPT ![p] = FALSE]
    /\ response' = [response EXCEPT ![p] = "none"]
    /\ UNCHANGED <<clock, last_reconnect, attempts, lock, fails>>
    /\ UNCHANGED nonVpnVars

VpnStart == VPN_RECONNECT_COOLDOWN * MsPerSec

VpnMaxClock == VpnStart + VpnTicks * TickSecs * MsPerSec

\* time passes, but not past the end of a sleep or of a request timeout, and
\* not while a call is in a critical section or about to enter the one that
\* resets the counter (these take no time on this clock)
VpnTick ==
    /\ lock = 0
    /\ \A p \in Callers : pc[p] \notin {"locked", "succeeded", "resetting"}
    /\ \A p \in Callers : pc[p] \in {"backoff", "call"} => clock < deadline[p]
    /\ clock + TickSecs * MsPerSec <= VpnMaxClock
    /\ LET pending == {deadline[p] : p \in {q \in Callers : pc[q] \in {"backoff", "call"}}}
           next == clock + TickSecs * MsPerSec
       IN  clock' = IF \E t \in pending : t < next
                    THEN CHOOSE t \in pending : \A u \in pending : t <= u
                    ELSE next
    /\ UNCHANGED stateVars

----------------------------------------------------------------------------
(* The per-instance flow for fleets: VpnManager                            *)

reconnect_cooldown == 30
StatusTimeout == 10
StopStartDelay == 2
VerifyDelay == 5

\* VpnManager::new: the configured instances
instances ==
    [i \in {"instance-sg", "instance-jp", "instance-us"} |->
        CASE i = "instance-sg" ->
                 [control_port |-> 8001, region |-> "singapore", name |-> "Singapore"]
          [] i = "instance-jp" ->
                 [control_port |-> 8002, region |-> "japan", name |-> "Japan"]
          [] i = "instance-us" ->
                 [control_port |-> 8003, region |-> "usa", name |-> "USA"]]

\* the instance ids callers pass: the configured ones and one that is not
FleetIds == DOMAIN instances \cup {"instance-xx"}

FleetCallers == 1..NFleetCallers

\* (mutant) every instance id is taken for a configured one
KnownAny(id) == TRUE

\* self.instances.get(instance_id) is Some
Known(id) == id \in DOMAIN instances

\* config.region (read only behind the lookup of the instance)
Region(id) == IF id \in DOMAIN instances THEN instances[id].region ELSE "none"

\* (mutant) the default target of the third region is the second
DefaultTargetShort(region) ==
    CASE region = "singapore" -> "Japan"
      [] region = "japan" -> "USA"
      [] region = "usa" -> "Japan"
      [] OTHER -> "Singapore"

\* match config.region { .. } for a call without a country
DefaultTarget(region) ==
    CASE region = "singapore" -> "Japan"
      [] region = "japan" -> "USA"
      [] region = "usa" -> "Singapore"
      [] OTHER -> "Singapore"

\* new_country.map(..).unwrap_or_else(..)
TargetCountry(given, region) == IF given = "none" THEN DefaultTarget(region) ELSE given

RECURSIVE Latest(_, _)
\* the latest of the times of the entries `ids` of the map
Latest(last, ids) ==
    IF ids = {} THEN 0
    ELSE LET k == CHOOSE x \in ids : TRUE
             rest == Latest(last, ids \ {k})
         IN  IF last[k] > rest THEN last[k] ELSE rest

\* (mutant) one cooldown for the whole fleet: the latest reconnect of any instance
LastTimeShared(last, id) == Latest(last, DOMAIN last)

\* last.get(instance_id).copied().unwrap_or(0.0)
LastTime(last, id) == IF id \in DOMAIN last THEN last[id] ELSE 0

\* (mutant) reconnect_vpn goes on whatever the time since the last reconnect
FleetCooldownNever(now, last_time) == FALSE

\* now - last_time < self.reconnect_cooldown
FleetCooldownActive(now, last_time) == now - last_time < reconnect_cooldown * MsPerSec

\* last.insert(instance_id.to_string(), now)
Insert(last, id, now) == [k \in DOMAIN last \cup {id} |-> IF k = id THEN now ELSE last[k]]

\* (history) the answer to a stop or start request, as the control API gave it
Answer(request, outcome) ==
    CASE request = "stop" /\ outcome = "success" -> "stop_ok"
      [] request = "stop" /\ outcome # "success" -> "stop_failed"
      [] request = "start" /\ outcome = "success" -> "start_ok"
      [] OTHER -> "start_failed"

\* what a request to the control API can come to; a status query can also be
\* answered with a body that is not JSON
StatusOutcomes == Outcomes \cup {"badbody"}

NoFleetCall == [c \in FleetCallers |-> 0]

FleetStateInit ==
    /\ fleet_last = [k \in {} |-> 0]
    /\ country = [i \in DOMAIN instances |-> instances[i].name]
    /\ fpc = [c \in FleetCallers |-> "idle"]
    /\ fop = [c \in FleetCallers |-> "none"]
    /\ fid = [c \in FleetCallers |-> "none"]
    /\ rotating = [c \in FleetCallers |-> FALSE]
    /\ new_country = [c \in FleetCallers |-> "none"]
    /\ target = [c \in FleetCallers |-> "none"]
    /\ fdeadline = NoFleetCall
    /\ fret = [c \in FleetCallers |-> "none"]
    /\ trace = [c \in FleetCallers |-> <<>>]
    /\ fcalls = 0

\* reconnect_vpn returns `ok`: to its caller (rotate_server returns the same
\* value), or, inside handle_403_error after the plain reconnect failed, on
\* to rotate_server(instance_id, None)
ReconnectReturns(c, ok) ==
    IF fop[c] = "handle" /\ ~rotating[c] /\ ~ok
    THEN /\ fpc' = [fpc EXCEPT ![c] = "ro_enter"]
         /\ UNCHANGED fret
    ELSE /\ fpc' = [fpc EXCEPT ![c] = "done"]
         /\ fret' = [fret EXCEPT ![c] = IF ok THEN "true" ELSE "false"]

\* get_instance_status returns: to its caller, or inside reconnect_vpn, which
\* then returns true whatever the status was
StatusReturns(c, value) ==
    IF fop[c] = "status"
    THEN /\ fpc' = [fpc EXCEPT ![c] = "done"]
         /\ fret' = [fret EXCEPT ![c] = value]
    ELSE ReconnectReturns(c, TRUE)

\* an entry point of the VpnManager is called
FleetCall(c, op, id, given) ==
    /\ fpc[c] = "idle"
    /\ fcalls < MaxFleetCalls
    /\ fcalls' = fcalls + 1
    /\ op = "rotate" \/ given = "none"
    /\ fop' = [fop EXCEPT ![c] = op]
    /\ fid' = [fid EXCEPT ![c] = id]
    /\ new_country' = [new_country EXCEPT ![c] = given]
    /\ fpc' = [fpc EXCEPT ![c] =
            CASE op = "status" -> "st_enter"
              [] op = "rotate" -> "ro_enter"
              [] OTHER -> "rc_enter"]
    /\ UNCHANGED <<clock, fleet_last, country, rotating, target, fdeadline, fret,
                   trace>>
    /\ UNCHANGED nonFleetVars

\* get_instance_status up to its first request: called directly, or by
\* reconnect_vpn once the 5 s after a successful start are over
GetStatusBegin(c, built) ==
    /\ \/ fpc[c] = "st_enter"
       \/ fpc[c] = "rc_verify" /\ clock >= fdeadline[c]
    /\ IF ~Known(fid[c])
       THEN /\ StatusReturns(c, "None")
            /\ UNCHANGED <<trace, fdeadline>>
       ELSE IF ~built
       THEN /\ StatusReturns(c, "None")
            /\ trace' = [trace EXCEPT ![c] = Append(@, "client_error")]
            /\ UNCHANGED fdeadline
       ELSE /\ fpc' = [fpc EXCEPT ![c] = "st_status"]
            /\ trace' = [trace EXCEPT ![c] = Append(@, "status")]
            /\ fdeadline' = [fdeadline EXCEPT ![c] = clock + StatusTimeout * MsPerSec]
            /\ UNCHANGED fret
    /\ UNCHANGED <<clock, fleet_last, country, fop, fid, rotating, new_country, target>>
    /\ UNCHANGED <<fcalls, nonFleetVars>>

\* the status request completes; a success is followed by the query of the
\* public IP
StatusRespond(c, outcome) ==
    /\ fpc[c] = "st_status"
    /\ IF IsSuccess(outcome)
       THEN /\ fpc' = [fpc EXCEPT ![c] = "st_ip"]
            /\ trace' = [trace EXCEPT ![c] = Append(@, "ip")]
            /\ fdeadline' = [fdeadline EXCEPT ![c] = clock + StatusTimeout * MsPerSec]
            /\ UNCHANGED fret
       ELSE /\ StatusReturns(c, "None")
            /\ UNCHANGED <<trace, fdeadline>>
    /\ UNCHANGED <<clock, fleet_last, country, fop, fid, rotating, new_country, target>>
    /\ UNCHANGED <<fcalls, nonFleetVars>>

\* the public-IP request completes; the status is returned with or without it
IpRespond(c, outcome) ==
    /\ fpc[c] = "st_ip"
    /\ StatusReturns(c, "Some")
    /\ UNCHANGED <<clock, fleet_last, country, fop, fid, rotating, new_country, target,
                   fdeadline, trace>>
    /\ UNCHANGED <<fcalls, nonFleetVars>>

\* reconnect_vpn up to its first request: the lookup of the instance, the
\* cooldown check and record under the lock, the client, the stop request
ReconnectBegin(c, built) ==
    /\ fpc[c] = "rc_enter"
    /\ IF ~Known(fid[c])
       THEN /\ ReconnectReturns(c, FALSE)
            /\ UNCHANGED <<fleet_last, trace, fdeadline>>
       ELSE IF FleetCooldownActive(clock, LastTime(fleet_last, fid[c]))
       THEN /\ ReconnectReturns(c, FALSE)
            /\ UNCHANGED <<fleet_last, trace, fdeadline>>
       ELSE /\ fleet_last' = Insert(fleet_last, fid[c], clock)
            /\ IF ~built
               THEN /\ ReconnectReturns(c, FALSE)
                    /\ trace' = [trace EXCEPT ![c] = Append(@, "client_error")]
                    /\ UNCHANGED fdeadline
               ELSE /\ fpc' = [fpc EXCEPT ![c] = "rc_stop"]
                    /\ trace' = [trace EXCEPT ![c] = Append(@, "stop")]
                    /\ fdeadline' = [fdeadline EXCEPT ![c] =
                                         clock + RequestTimeout * MsPerSec]
                    /\ UNCHANGED fret
    /\ UNCHANGED <<clock, country, fop, fid, rotating, new_country, target>>
    /\ UNCHANGED <<fcalls, nonFleetVars>>

\* the stop request completes; a success is followed by a sleep of 2 s
StopRespond(c, outcome) ==
    /\ fpc[c] = "rc_stop"
    /\ trace' = [trace EXCEPT ![c] = Append(@, Answer("stop", outcome))]
    /\ IF IsSuccess(outcome)
       THEN /\ fpc' = [fpc EXCEPT ![c] = "rc_pause"]
            /\ fdeadline' = [fdeadline EXCEPT ![c] = clock + StopStartDelay * MsPerSec]
            /\ UNCHANGED fret
       ELSE /\ ReconnectReturns(c, FALSE)
            /\ UNCHANGED fdeadline
    /\ UNCHANGED <<clock, fleet_last, country, fop, fid, rotating, new_country, target>>
    /\ UNCHANGED <<fcalls, nonFleetVars>>

\* the sleep is over: the start request
SendStart(c) ==
    /\ fpc[c] = "rc_pause"
    /\ clock >= fdeadline[c]
    /\ fpc' = [fpc EXCEPT ![c] = "rc_start"]
    /\ trace' = [trace EXCEPT ![c] = Append(@, "start")]
    /\ fdeadline' = [fdeadline EXCEPT ![c] = clock + RequestTimeout * MsPerSec]
    /\ UNCHANGED <<clock, fleet_last, country, fop, fid, rotating, new_country, target,
                   fret>>
    /\ UNCHANGED <<fcalls, nonFleetVars>>

\* the start request completes; a success is followed by a sleep of 5 s and
\* the query of the new status
StartRespond(c, outcome) ==
    /\ fpc[c] = "rc_start"
    /\ trace' = [trace EXCEPT ![c] = Append(@, Answer("start", outcome))]
    /\ IF IsSuccess(outcome)
       THEN /\ fpc' = [fpc EXCEPT ![c] = "rc_verify"]
            /\ fdeadline' = [fdeadline EXCEPT ![c] = clock + VerifyDelay * MsPerSec]
            /\ UNCHANGED fret
       ELSE /\ ReconnectReturns(c, FALSE)
            /\ UNCHANGED fdeadline
    /\ UNCHANGED <<clock, fleet_last, country, fop, fid, rotating, new_country, target>>
    /\ UNCHANGED <<fcalls, nonFleetVars>>

\* rotate_server up to its request: the lookup of the instance, the target
\* country, the client, the settings request
RotateBegin(c, built) ==
    /\ fpc[c] = "ro_enter"
    /\ rotating' = [rotating EXCEPT ![c] = TRUE]
    /\ IF ~Known(fid[c])
       THEN /\ fpc' = [fpc EXCEPT ![c] = "done"]
            /\ fret' = [fret EXCEPT ![c] = "false"]
            /\ UNCHANGED <<target, trace, fdeadline>>
       ELSE /\ target' = [target EXCEPT ![c] =
                              TargetCountry(new_country[c], Region(fid[c]))]
            /\ IF ~built
               THEN /\ fpc' = [fpc EXCEPT ![c] = "done"]
                    /\ fret' = [fret EXCEPT ![c] = "false"]
                    /\ trace' = [trace EXCEPT ![c] = Append(@, "client_error")]
                    /\ UNCHANGED fdeadline
               ELSE /\ fpc' = [fpc EXCEPT ![c] = "ro_settings"]
                    /\ trace' = [trace EXCEPT ![c] = Append(@, "settings")]
                    /\ fdeadline' = [fdeadline EXCEPT ![c] =
                                         clock + RequestTimeout * MsPerSec]
                    /\ UNCHANGED fret
    /\ UNCHANGED <<clock, fleet_last, country, fop, fid, new_country>>
    /\ UNCHANGED <<fcalls, nonFleetVars>>

\* the settings request completes; on a success the VPN client has taken the
\* new country and rotate_server goes on to reconnect_vpn
SettingsRespond(c, outcome) ==
    /\ fpc[c] = "ro_settings"
    /\ IF IsSuccess(outcome)
       THEN /\ country' = [country EXCEPT ![fid[c]] = target[c]]
            /\ trace' = [trace EXCEPT ![c] = Append(@, "rotated")]
            /\ fpc' = [fpc EXCEPT ![c] = "rc_enter"]
            /\ UNCHANGED fret
       ELSE /\ fpc' = [fpc EXCEPT ![c] = "done"]
            /\ fret' = [fret EXCEPT ![c] = "false"]
            /\ UNCHANGED <<country, trace>>
    /\ UNCHANGED <<clock, fleet_last, fop, fid, rotating, new_country, target, fdeadline>>
    /\ UNCHANGED <<fcalls, nonFleetVars>>

\* the call has returned; the task goes on to other work
FleetFinish(c) ==
    /\ fpc[c] = "done"
    /\ fpc' = [fpc EXCEPT ![c] = "idle"]
    /\ fop' = [fop EXCEPT ![c] = "none"]
    /\ fid' = [fid EXCEPT ![c] = "none"]
    /\ rotating' = [rotating EXCEPT ![c] = FALSE]
    /\ new_country' = [new_country EXCEPT ![c] = "none"]
    /\ target' = [target EXCEPT ![c] = "none"]
    /\ fdeadline' = [fdeadline EXCEPT ![c] = 0]
    /\ fret' = [fret EXCEPT ![c] = "none"]
    /\ trace' = [trace EXCEPT ![c] = <<>>]
    /\ UNCHANGED <<clock, fleet_last, country>>
    /\ UNCHANGED <<fcalls, nonFleetVars>>

FleetStart == reconnect_cooldown * MsPerSec

FleetMaxClock == FleetStart + FleetTicks * FleetTickSecs * MsPerSec

Waiting(c) == fpc[c] \in {"st_status", "st_ip", "rc_stop", "rc_pause", "rc_start", "rc_verify"}

\* time passes, but not past the end of a sleep or of a request timeout, and
\* not while a call stands before a step that takes no time
FleetTick ==
    /\ \A c \in FleetCallers : fpc[c] \in {"idle", "done"} \/ Waiting(c)
    /\ \A c \in FleetCallers : Waiting(c) => clock < fdeadline[c]
    /\ clock + FleetTickSecs * MsPerSec <= FleetMaxClock
    /\ LET pending == {fdeadline[c] : c \in {d \in FleetCallers : Waiting(d)}}
           next == clock + FleetTickSecs * MsPerSec
       IN  clock' = IF \E t \in pending : t < next
                    THEN CHOOSE t \in pending : \A u \in pending : t <= u
                    ELSE next
    /\ UNCHANGED stateVars

----------------------------------------------------------------------------
(* serverx-rs: the formats of an extraction result and of a session         *)
(* A format entry of the extraction result is reduced to what the gateway   *)
(* reads of it: [format_id, url, kind, size, resolution, headers], where    *)
(* kind is what parse_formats classifies it as (video: progressive, audio,  *)
(* image), size is the height, the bitrate, or the width x height,          *)
(* resolution is "<width>x<height>" when both are given and else the        *)
(* format's own resolution string ("" when it has none), and headers is     *)
(* what extract_headers finds for it: a set of <<name, value>> pairs.       *)

\* the first of the tests of determine_content_type that a format_id meets
NamedThumb(format_id) == format_id = "thumb"

\* determine_content_type(resolution, format_id, quality); the quality of an
\* image is its upper-cased format_id, that of other formats holds no "IMAGE"
determine_content_type(kind, format_id) ==
    IF kind = "audio" THEN "audio/mp4"
    ELSE IF NamedThumb(format_id) THEN "image/jpeg"
    ELSE "video/mp4"

\* the key under which parse_formats has seen a format of its kind
SeenKey(f) == IF f.kind = "image" THEN <<f.size, f.format_id>> ELSE <<f.size, "">>

\* the loop of parse_formats: formats without url are skipped, and of the
\* formats of one kind with the same key the first is kept
RECURSIVE ParseLoop(_, _, _)
ParseLoop(raws, kept, seen) ==
    IF raws = <<>> THEN kept
    ELSE LET f == Head(raws)
             k == <<f.kind, SeenKey(f)>>
         IN  IF f.url = "" \/ k \in seen
             THEN ParseLoop(Tail(raws), kept, seen)
             ELSE ParseLoop(Tail(raws), Append(kept, f), seen \cup {k})

\* the priority of an image quality
priority(q) ==
    CASE q = "orig" -> 0
      [] q = "large" -> 1
      [] q = "medium" -> 2
      [] q = "small" -> 3
      [] q = "thumb" -> 4
      [] OTHER -> 5

\* the rank by which the list of a kind is sorted, smallest first: height and
\* bitrate descending, image priority ascending
Rank(f) == IF f.kind = "image" THEN priority(f.format_id) ELSE 0 - f.size

\* sort_by: a stable sort
RECURSIVE SortByRank(_)
SortByRank(seq) ==
    IF seq = <<>> THEN <<>>
    ELSE LET rest == SortByRank(SubSeq(seq, 1, Len(seq) - 1))
             x == seq[Len(seq)]
             n == Cardinality({i \in 1..Len(rest) : Rank(rest[i]) <= Rank(x)})
         IN  SubSeq(rest, 1, n) \o <<x>> \o SubSeq(rest, n + 1, Len(rest))

OfKind(seq, kind) == SelectSeq(seq, LAMBDA f : f.kind = kind)

\* parse_formats: (all_videos, audio_formats, image_formats)
parse_formats(raws) ==
    LET kept == ParseLoop(raws, <<>>, {})
    IN  [video |-> SortByRank(OfKind(kept, "video")),
         audio |-> SortByRank(OfKind(kept, "audio")),
         image |-> SortByRank(OfKind(kept, "image"))]

\* FormatInfo, as process_format builds it
FormatInfo(f) ==
    [url |-> f.url, kind |-> f.kind, size |-> f.size,
     content_type |-> determine_content_type(f.kind, f.format_id),
     resolution |-> IF f.kind = "audio" THEN "audio only" ELSE f.resolution,
     http_headers |-> f.headers]

\* formats_map.insert(format_id, format_info), for each format in order
RECURSIVE InsertAll(_, _)
InsertAll(map, fmts) ==
    IF fmts = <<>> THEN map
    ELSE LET f == Head(fmts)
         IN  InsertAll([k \in DOMAIN map \cup {f.format_id} |->
                            IF k = f.format_id THEN FormatInfo(f) ELSE map[k]],
                       Tail(fmts))

RECURSIVE Flatten(_)
Flatten(seqs) == IF seqs = <<>> THEN <<>> ELSE Head(seqs) \o Flatten(Tail(seqs))

\* the formats of the entries that store_formats_in_session takes: images
\* with a format_id
EntryImages(entries) ==
    SelectSeq(Flatten(entries), LAMBDA f : f.format_id # "" /\ f.kind = "image")

\* store_formats_in_session: the formats map of the session
formats_map(info) ==
    LET top == parse_formats(info.formats)
    IN  InsertAll([k \in {} |-> 0],
                  top.video \o top.audio \o top.image \o EntryImages(info.entries))

\* the formats an entry of a playlist response lists
EntryListed(raws) ==
    LET p == parse_formats(raws)
    IN  IF p.image # <<>> /\ p.video = <<>> THEN p.image
        ELSE IF p.video # <<>> THEN p.video
        ELSE <<>>

Range(seq) == {seq[i] : i \in 1..Len(seq)}

\* build_response_with_session / build_playlist_response: the formats that
\* the response lists, each with a link /stream?id=..&format=<format_id>
Listed(info) ==
    LET top == parse_formats(info.formats)
    IN  IF info.is_playlist /\ info.entries # <<>>
        THEN Range(top.video) \cup Range(top.image)
             \cup UNION {Range(EntryListed(info.entries[i])) : i \in 1..Len(info.entries)}
        ELSE Range(top.video) \cup Range(top.audio) \cup Range(top.image)

\* content_type.starts_with("image/"), over the content types there are
StartsWithImage(content_type) == content_type = "image/jpeg"

\* (mutant) "best" takes any descriptor
IsBestAny(f) == TRUE

\* the test of the "best" arm
IsBest(f) == f.resolution # "" /\ f.resolution # "audio only"

\* stream: the descriptors a format parameter can select; the order in which
\* values() runs through the map is not fixed, so "first" is any of them
Selectable(formats, format_id) ==
    CASE format_id = "best" ->
             {formats[k] : k \in {j \in DOMAIN formats : IsBest(formats[j])}}
      [] format_id = "best_audio" ->
             {formats[k] : k \in {j \in DOMAIN formats :
                                     formats[j].resolution = "audio only"}}
      [] format_id = "best_image" ->
             {formats[k] : k \in {j \in DOMAIN formats :
                                     StartsWithImage(formats[j].content_type)}}
      [] OTHER ->
             IF format_id \in DOMAIN formats THEN {formats[format_id]} ELSE {}

\* what the GET to the url of a descriptor can come to: a response with a
\* status, or no response (a transport error, the 300 s timeout included)
UpstreamReplies == {"200", "403", "500", "error"}

\* the header that stream adds to every request
Identity == <<"accept-encoding", "identity">>

\* stream: the headers of the request; header() appends, so a header of the
\* descriptor with the same name stays beside the added one (the Cookie
\* header, taken from the session and not from the descriptor, is left out)
StreamRequestHeaders(d) ==
    {h \in d.http_headers : h[1] # "cookie"} \cup {Identity}

----------------------------------------------------------------------------
(* The Redis-backed caches: metadata (serverrs) and sessions (serverx-rs)  *)

MetadataTtl == 300
SessionTtl == 300

\* SET key value EX ttl
SetEx(store, key, value, ttl, now) ==
    [k \in DOMAIN store \cup {key} |->
        IF k = key THEN [value |-> value, exp |-> now + ttl * MsPerSec] ELSE store[k]]

\* why a GET finds what it finds
Cause(store, key, now, reply_ok) ==
    IF ~reply_ok THEN "error"
    ELSE IF key \notin DOMAIN store THEN "never"
    ELSE IF now >= store[key].exp THEN "expired"
    ELSE "hit"

\* GET key: the reply of the store
RedisGet(store, key, now, reply_ok) ==
    LET c == Cause(store, key, now, reply_ok)
    IN  IF c = "error" THEN [kind |-> "err", value |-> "none"]
        ELSE IF c = "hit" THEN [kind |-> "value", value |-> store[key].value]
        ELSE [kind |-> "nil", value |-> "none"]

None == [some |-> FALSE, value |-> "none"]

Some(v) == [some |-> TRUE, value |-> v]

\* (mutant) an error of the store is handed on to the caller
get_metadata_raising(reply) ==
    IF reply.kind = "value" THEN Some(reply.value)
    ELSE IF reply.kind = "err" THEN [some |-> FALSE, value |-> "error"]
    ELSE None

\* RedisCache::get_metadata: Ok(Some(cached)), Ok(None), Err(e)
get_metadata(reply) == IF reply.kind = "value" THEN Some(reply.value) ELSE None

\* (mutant) a session that is there is not found
get_session_lost(reply) == None

\* get_session_from_redis and the match on it in stream: an error of the
\* store is logged and taken for None
get_session(reply) == IF reply.kind = "value" THEN Some(reply.value) ELSE None

\* (mutant) a session is deleted when it is read
AfterGetDelete(store, key) == [k \in DOMAIN store \ {key} |-> store[k]]

\* get_session_from_redis leaves the record where it is
AfterGet(store, key) == store

\* serverx-rs, download: the status for what the extraction came to other
\* than a result
DownloadStatus(extracted) ==
    CASE extracted = "NOT_FOUND" -> 404
      [] extracted = "FORBIDDEN" -> 403
      [] extracted = "AUTH_REQUIRED" -> 401
      [] extracted = "UNSUPPORTED" -> 400
      [] extracted = "TIMEOUT" -> 504
      [] OTHER -> 500

\* download: Err(e) of store_formats_in_session ends the request
StoreFailureFatal(set_ok) == ~set_ok

Urls == {"u1"}

Data == {"d1"}

\* what the extraction comes to other than a result; a block signal goes to
\* trigger_local_vpn_reconnect: FetchFailed and FetchAnswer
ExtractErrors == {"NOT_FOUND", "TIMEOUT"}

\* (mutant) whatever the extraction comes to is cached
CachesResultAlways(extracted) == TRUE

\* fetch_tiktok_data: set_metadata is called in the arm of a result only
CachesResult(extracted) == extracted \in Data

NoFetch == [url |-> "none", cause |-> "none", cached |-> None, extracted |-> "none",
            stored |-> "none", response |-> "none", data |-> "none"]

NoDownload == [at |-> 0, extracted |-> "none", stored |-> "none", status |-> 0,
               session_id |-> 0, listed |-> {}]

NoDescriptor == [url |-> "none", kind |-> "none", size |-> 0, content_type |-> "none",
                 resolution |-> "none", http_headers |-> {}]

NoStream == [at |-> 0, id |-> 0, format |-> "none", cause |-> "none", found |-> FALSE,
             status |-> 0, descriptor |-> NoDescriptor, formats |-> [k \in {} |-> 0],
             upstream |-> "none", request_headers |-> {}, body |-> "none"]

CacheFieldsInit ==
    /\ meta = [k \in {} |-> 0]
    /\ fetch = NoFetch
    /\ sess = [k \in {} |-> 0]
    /\ next_sid = 1
    /\ dl = NoDownload
    /\ st = NoStream

CacheStateInit ==
    /\ redis_on = TRUE
    /\ CacheFieldsInit

\* serverrs, fetch_tiktok_data: the cache is asked, on a miss the extractor
\* runs and its result is cached for 300 s
Fetch(url, reply_ok, extracted, set_ok) ==
    LET cause == IF redis_on THEN Cause(meta, url, clock, reply_ok) ELSE "off"
        cached == IF redis_on THEN get_metadata(RedisGet(meta, url, clock, reply_ok))
                  ELSE None
        writes == ~cached.some /\ CachesResult(extracted) /\ redis_on
    IN  /\ redis_on \/ reply_ok
        /\ extracted # "FORBIDDEN"
        /\ cached.some => extracted \in Data
        /\ writes \/ set_ok
        /\ meta' = IF writes /\ set_ok
                   THEN SetEx(meta, url, extracted, MetadataTtl, clock)
                   ELSE meta
        /\ fetch' = [url |-> url,
                     cause |-> cause,
                     cached |-> cached,
                     extracted |-> IF cached.some THEN "skipped"
                                   ELSE IF extracted \in Data THEN "ok" ELSE extracted,
                     stored |-> IF ~writes THEN "skipped"
                                ELSE IF set_ok THEN "ok" ELSE "failed",
                     response |-> IF cached.some \/ extracted \in Data THEN "Ok" ELSE "Err",
                     data |-> IF cached.some THEN cached.value
                              ELSE IF extracted \in Data THEN extracted ELSE "none"]
        /\ UNCHANGED <<clock, redis_on, sess, next_sid, dl, st>>
        /\ UNCHANGED nonCacheVars

\* serverx-rs, download (for a supported url): the extraction, the session
\* written for 300 s, the response that lists the formats
Download(info, extracted, set_ok) ==
    LET ok == extracted = "ok"
    IN  /\ next_sid <= MaxSessions
        /\ ok \/ set_ok
        /\ next_sid' = IF ok THEN next_sid + 1 ELSE next_sid
        /\ sess' = IF ok /\ set_ok
                   THEN SetEx(sess, next_sid, formats_map(info), SessionTtl, clock)
                   ELSE sess
        /\ dl' = [at |-> clock,
                  extracted |-> extracted,
                  stored |-> IF ~ok THEN "skipped" ELSE IF set_ok THEN "ok" ELSE "failed",
                  status |-> IF ~ok THEN DownloadStatus(extracted)
                             ELSE IF StoreFailureFatal(set_ok) THEN 500
                             ELSE 200,
                  session_id |-> IF ok /\ ~StoreFailureFatal(set_ok) THEN next_sid ELSE 0,
                  listed |-> IF ok /\ ~StoreFailureFatal(set_ok) THEN Listed(info) ELSE {}]
        /\ UNCHANGED <<clock, redis_on, meta, fetch, st>>
        /\ UNCHANGED nonCacheVars

\* serverx-rs, stream: the session is read, the format is selected, the
\* media is requested from its url
Stream(id, format_id, reply_ok, up) ==
    LET cause == Cause(sess, id, clock, reply_ok)
        session == get_session(RedisGet(sess, id, clock, reply_ok))
        sel == IF session.some THEN Selectable(session.value, format_id) ELSE {}
        sends == session.some /\ sel # {}
    IN  /\ sends \/ up = "200"
        /\ sess' = AfterGet(sess, id)
        /\ \E d \in sel \cup {NoDescriptor} :
              /\ d = NoDescriptor <=> sel = {}
              /\ st' = [at |-> clock,
                        id |-> id,
                        format |-> format_id,
                        cause |-> cause,
                        found |-> session.some,
                        status |-> IF ~session.some THEN 410
                                   ELSE IF sel = {} THEN 400
                                   ELSE IF up = "error" THEN 502
                                   ELSE 200,
                        descriptor |-> d,
                        formats |-> IF session.some THEN session.value
                                    ELSE [k \in {} |-> 0],
                        upstream |-> IF sends THEN up ELSE "none",
                        request_headers |-> IF sends THEN StreamRequestHeaders(d)
                                            ELSE {},
                        body |-> IF ~session.some THEN "SESSION_EXPIRED"
                                 ELSE IF sel = {} THEN "FORMAT_NOT_FOUND"
                                 ELSE IF up = "error" THEN "DOWNLOAD_ERROR"
                                 ELSE "upstream body"]
        /\ UNCHANGED <<clock, redis_on, meta, fetch, next_sid, dl>>
        /\ UNCHANGED nonCacheVars

CacheMaxClock == CacheTicks * CacheTickSecs * MsPerSec

\* time passes
CacheTick ==
    /\ clock + CacheTickSecs * MsPerSec <= CacheMaxClock
    /\ clock' = clock + CacheTickSecs * MsPerSec
    /\ UNCHANGED stateVars

----------------------------------------------------------------------------
(* serverrs: the token-addressed proxy, /download and /stream               *)
(* The data parameter is reduced to what the handler finds in it: nothing,  *)
(* a token that decrypt rejects, a text that is not JSON, or a JSON value.  *)
(* Of the JSON value the handler reads author, type, url and http_headers;  *)
(* "absent" stands for a field that is missing, null or not a string (for   *)
(* http_headers: not an object).                                            *)

\* content_type_info(file_type).0
content_type_info(file_type) ==
    CASE file_type = "mp3" -> "audio/mpeg"
      [] file_type = "video" -> "video/mp4"
      [] file_type = "image" -> "image/jpeg"
      [] OTHER -> "application/octet-stream"

\* stream_handler: the content type of a file_type
stream_content_type(file_type) ==
    IF file_type = "mp3" \/ file_type = "audio" THEN "audio/mpeg" ELSE "video/mp4"

\* Some(x) if !x.is_empty()
Present(x) == x # "absent" /\ x # ""

\* response.status().is_success()
IsSuccessStatus(up) == up = "200"

\* req_headers: None
AbsentHeaders == [given |-> FALSE, pairs |-> {}]

\* req_headers: Some(headers)
GivenHeaders(pairs) == [given |-> TRUE, pairs |-> pairs]

\* stream_from_cdn: the headers of the request are those handed over
CdnRequestHeaders(req_headers) == IF req_headers.given THEN req_headers.pairs ELSE {}

\* stream_from_cdn: what the client gets
stream_from_cdn(url, req_headers, content_type, up) ==
    [sent |-> TRUE,
     url |-> url,
     request_headers |-> CdnRequestHeaders(req_headers),
     upstream |-> up,
     status |-> IF up # "error" /\ IsSuccessStatus(up) THEN 200 ELSE 502,
     content_type |-> IF up # "error" /\ IsSuccessStatus(up) THEN content_type
                      ELSE "text/plain",
     body |-> IF up = "error" THEN "CDN request failed"
              ELSE IF ~IsSuccessStatus(up) THEN "CDN returned status"
              ELSE "upstream body",
     body_status |-> IF up # "error" /\ ~IsSuccessStatus(up) THEN up ELSE "none"]

\* a handler's early return
Rejected(body) ==
    [sent |-> FALSE, url |-> "none", request_headers |-> {}, upstream |-> "none",
     status |-> 400, content_type |-> "text/plain", body |-> body,
     body_status |-> "none"]

NoPayload == [author |-> "absent", type |-> "absent", url |-> "absent",
              http_headers |-> AbsentHeaders]

NoProxied == [handler |-> "none", data |-> "none", payload |-> NoPayload, link |-> "none",
              answer |-> [sent |-> FALSE, url |-> "none", request_headers |-> {},
                          upstream |-> "none", status |-> 0, content_type |-> "none",
                          body |-> "none", body_status |-> "none"]]

\* the checks both handlers make before they look at the fields
DataRejection(data) ==
    CASE data = "empty" -> "Encrypted data parameter is required"
      [] data = "undecryptable" -> "Decryption failed"
      [] data = "not_json" -> "Invalid decrypted data"
      [] OTHER -> "none"

\* stream::download_handler
download_handler(data, payload, up) ==
    IF DataRejection(data) # "none" THEN Rejected(DataRejection(data))
    ELSE IF ~Present(payload.author) THEN Rejected("Invalid decrypted data: missing author")
    ELSE IF ~Present(payload.type) THEN Rejected("Invalid decrypted data: missing type")
    ELSE IF ~Present(payload.url) THEN Rejected("No download URL provided")
    ELSE stream_from_cdn(payload.url, AbsentHeaders, content_type_info(payload.type), up)

\* stream::stream_handler
stream_handler(data, payload, up) ==
    IF DataRejection(data) # "none" THEN Rejected(DataRejection(data))
    ELSE IF ~Present(payload.url) THEN Rejected("Invalid decrypted data: missing url")
    ELSE IF ~Present(payload.author) THEN Rejected("Invalid decrypted data: missing author")
    ELSE LET file_type == IF payload.type = "absent" THEN "video" ELSE payload.type
         IN  stream_from_cdn(payload.url, payload.http_headers,
                             stream_content_type(file_type), up)

\* GET /download and GET /stream of serverrs: main.rs hands the request to the
\* handler of stream.rs with the settings and the client, and nothing else
Proxied(handler, data, payload, up) ==
    LET answer == IF handler = "download" THEN download_handler(data, payload, up)
                  ELSE stream_handler(data, payload, up)
    IN  /\ data = "json" \/ payload = NoPayload
        /\ answer.sent \/ up = "200"
        /\ px' = [handler |-> handler, data |-> data, payload |-> payload,
                  link |-> "none", answer |-> answer]
        /\ UNCHANGED <<clock, req, conn>>
        /\ UNCHANGED nonGateVars

(* serverrs: the links of a response. Of the extraction result             *)
(* generate_json_response reads uploader and channel and, of each format,   *)
(* format_id, url, vcodec, acodec, height, width, http_headers and          *)
(* _cookies; "absent" stands for a field that is missing or not a string,   *)
(* 0 for a height or width that is missing.                                 *)

\* v[key].as_str().filter(|s| !s.is_empty()) .. unwrap_or(default)
str_or(v, default) == IF v # "absent" /\ v # "" THEN v ELSE default

\* v.as_str().unwrap_or(default)
as_str_or(v, default) == IF v = "absent" THEN default ELSE v

\* format_id.starts_with("image-"), over the format ids there are
IsImageId(format_id) == format_id \in {"image-0", "image-1"}

\* height * width
Quality(f) == f.height * f.width

\* sort_by(|a, b| qb.cmp(&qa)): a stable sort, the highest quality first
RECURSIVE SortByQuality(_)
SortByQuality(seq) ==
    IF seq = <<>> THEN <<>>
    ELSE LET rest == SortByQuality(SubSeq(seq, 1, Len(seq) - 1))
             x == seq[Len(seq)]
             n == Cardinality({i \in 1..Len(rest) : Quality(rest[i]) >= Quality(x)})
         IN  SubSeq(rest, 1, n) \o <<x>> \o SubSeq(rest, n + 1, Len(rest))

\* the http_headers of the format with its _cookies as the Cookie header
StreamHeaders(f) ==
    GivenHeaders(f.headers \cup
                 (IF f.cookies # "absent" THEN {<<"Cookie", f.cookies>>} ELSE {}))

\* gen_stream_link: no link for a format without a url
gen_stream_link(name, f, author, file_type) ==
    IF f.url = "absent" THEN {}
    ELSE {[name |-> name, index |-> 0, endpoint |-> "stream",
           payload |-> [author |-> author, type |-> file_type, url |-> f.url,
                        http_headers |-> StreamHeaders(f)]]}

\* build_image_response: a /download link for every image, a /stream link
\* for the audio
build_image_response(data, author) ==
    LET image_formats == SelectSeq(data.formats, LAMBDA f : IsImageId(f.format_id))
        audio == SelectSeq(data.formats, LAMBDA f : f.format_id = "audio")
    IN  {[name |-> "no_watermark", index |-> i, endpoint |-> "download",
          payload |-> [author |-> author, type |-> "image",
                       url |-> as_str_or(image_formats[i].url, ""),
                       http_headers |-> AbsentHeaders]] :
                i \in 1..Len(image_formats)}
        \cup
        (IF audio = <<>> THEN {}
         ELSE {[name |-> "mp3", index |-> 0, endpoint |-> "stream",
                payload |-> [author |-> author, type |-> "mp3",
                             url |-> as_str_or(audio[1].url, ""),
                             http_headers |-> StreamHeaders(audio[1])]]})

\* build_video_response: /stream links for the download format, the best
\* format below 720, the best two from 720 up, and the audio
build_video_response(data, author) ==
    LET IsVideo(f) == as_str_or(f.vcodec, "none") # "none"
                      /\ as_str_or(f.acodec, "none") # "none"
        IsAudioOnly(f) == as_str_or(f.acodec, "none") # "none"
                          /\ as_str_or(f.vcodec, "none") \in {"none", ""}
        unsorted == SelectSeq(data.formats, IsVideo)
        audio_only == SelectSeq(data.formats, IsAudioOnly)
        audio_format == IF audio_only # <<>> THEN <<audio_only[1]>>
                        ELSE IF unsorted # <<>> THEN <<unsorted[1]>>
                        ELSE <<>>
        video_formats == SortByQuality(unsorted)
        download_format == SelectSeq(data.formats, LAMBDA f : f.format_id = "download")
        hd_formats == SelectSeq(video_formats, LAMBDA f : f.height >= 720)
        sd_formats == SelectSeq(video_formats, LAMBDA f : f.height < 720)
    IN  (IF download_format # <<>>
         THEN gen_stream_link("watermark", download_format[1], author, "video") ELSE {})
        \cup
        (IF sd_formats # <<>>
         THEN gen_stream_link("no_watermark", sd_formats[1], author, "video") ELSE {})
        \cup
        (IF hd_formats # <<>>
         THEN gen_stream_link("no_watermark_hd", hd_formats[1], author, "video") ELSE {})
        \cup
        (IF Len(hd_formats) > 1
         THEN gen_stream_link("watermark_hd", hd_formats[2], author, "video") ELSE {})
        \cup
        (IF audio_format # <<>>
         THEN gen_stream_link("mp3", audio_format[1], author, "mp3") ELSE {})

\* generate_json_response: the /download and /stream links of the response
generate_json_response(data) ==
    LET is_image == \E i \in 1..Len(data.formats) : IsImageId(data.formats[i].format_id)
        nickname == str_or(data.uploader, str_or(data.channel, "unknown"))
    IN  IF is_image THEN build_image_response(data, nickname)
        ELSE build_video_response(data, nickname)

\* a client follows a link of a response before the link expires: the
\* token decrypts to the payload it was made of and is parsed as JSON
Follow(link, up) ==
    LET answer == IF link.endpoint = "download"
                  THEN download_handler("json", link.payload, up)
                  ELSE stream_handler("json", link.payload, up)
    IN  /\ answer.sent \/ up = "200"
        /\ px' = [handler |-> link.endpoint, data |-> "json", payload |-> link.payload,
                  link |-> link.name, answer |-> answer]
        /\ UNCHANGED <<clock, req, conn>>
        /\ UNCHANGED nonGateVars

----------------------------------------------------------------------------
(* Extraction errors: their classification and what the handlers answer     *)
(* An error message of the extractor is a sequence of phrases; a substring  *)
(* test is a test for one of its phrases.                                   *)

Phrases == {"Unable to download", "Not Found", "403", "Forbidden", "Login",
            "Unsupported URL", "blocked"}

\* to_lowercase, phrase by phrase
Lower(w) ==
    CASE w = "Unable to download" -> "unable to download"
      [] w = "Not Found" -> "not found"
      [] w = "Forbidden" -> "forbidden"
      [] w = "Login" -> "login"
      [] w = "Unsupported URL" -> "unsupported url"
      [] OTHER -> w

to_lowercase(msg) == [i \in DOMAIN msg |-> Lower(msg[i])]

contains(msg, needle) == \E i \in DOMAIN msg : msg[i] = needle

\* extract_with_ytdlp: the prefix that the map_err closure puts before the
\* message (the same closure in both servers)
classify(msg) ==
    IF contains(to_lowercase(msg), "not found")
       \/ contains(to_lowercase(msg), "unable to download")
    THEN "NOT_FOUND"
    ELSE IF contains(msg, "403") \/ contains(to_lowercase(msg), "forbidden")
    THEN "FORBIDDEN"
    ELSE IF contains(to_lowercase(msg), "login")
            \/ contains(to_lowercase(msg), "authentication")
    THEN "AUTH_REQUIRED"
    ELSE IF contains(to_lowercase(msg), "unsupported url")
    THEN "UNSUPPORTED"
    ELSE "EXTRACTION_FAILED"

ErrorKinds == {"NOT_FOUND", "FORBIDDEN", "AUTH_REQUIRED", "UNSUPPORTED",
               "EXTRACTION_FAILED"}

\* fetch_tiktok_data: the status for an error of the extractor
FetchStatus(kind) ==
    CASE kind = "NOT_FOUND" -> 404
      [] kind = "FORBIDDEN" -> 503
      [] kind = "AUTH_REQUIRED" -> 401
      [] kind = "UNSUPPORTED" -> 400
      [] OTHER -> 500

\* fetch_tiktok_data: the "error" of the body for an error of the extractor
FetchBody(kind) ==
    CASE kind = "NOT_FOUND" -> "Video not found. Please check the URL and make sure the video exists."
      [] kind = "FORBIDDEN" -> "Service temporarily unavailable due to IP block, retrying with different endpoint"
      [] kind = "AUTH_REQUIRED" -> "This content requires login/authentication"
      [] kind = "UNSUPPORTED" -> "Unsupported or invalid URL"
      [] OTHER -> "Extraction failed"

NoRequest == [stage |-> "none", url |-> "none", msg |-> <<>>, kind |-> "none",
              status |-> 0, body |-> "none", ret |-> "none"]

StoreHandlers == 1..NStoreHandlers

\* Arc::new(Mutex::new(conn)): nobody holds it, no handler is at the store
NoConn == [holder |-> 0,
           pos |-> [h \in StoreHandlers |-> "idle"],
           op |-> [h \in StoreHandlers |-> "none"]]

GateStateInit ==
    /\ px = NoProxied
    /\ req = [p \in Callers |-> NoRequest]
    /\ conn = NoConn

\* serverrs, fetch_tiktok_data when the cache has nothing for the url and
\* extract_with_ytdlp fails with msg: a block signal goes on to
\* trigger_local_vpn_reconnect, every other error is answered at once
FetchFailed(p, url, reply_ok, msg) ==
    LET cached == IF redis_on THEN get_metadata(RedisGet(meta, url, clock, reply_ok))
                  ELSE None
        kind == classify(msg)
    IN  /\ pc[p] = "idle"
        /\ req[p].stage # "trigger"
        /\ redis_on \/ reply_ok
        /\ ~cached.some
        /\ req' = [req EXCEPT ![p] =
                     IF kind = "FORBIDDEN"
                     THEN [stage |-> "trigger", url |-> url, msg |-> msg, kind |-> kind,
                           status |-> 0, body |-> "none", ret |-> "none"]
                     ELSE [stage |-> "answered", url |-> url, msg |-> msg, kind |-> kind,
                           status |-> FetchStatus(kind), body |-> FetchBody(kind),
                           ret |-> "none"]]
        /\ UNCHANGED <<clock, px, conn>>
        /\ UNCHANGED nonGateVars

\* serverrs, fetch_tiktok_data after trigger_local_vpn_reconnect has
\* returned: its result is dropped and the request is answered
FetchAnswer(p) ==
    /\ req[p].stage = "trigger"
    /\ pc[p] = "done"
    /\ req' = [req EXCEPT ![p] =
                 [stage |-> "answered", url |-> req[p].url, msg |-> req[p].msg,
                  kind |-> req[p].kind, status |-> FetchStatus(req[p].kind),
                  body |-> FetchBody(req[p].kind), ret |-> ret[p]]]
    /\ UNCHANGED <<clock, px, conn>>
    /\ UNCHANGED nonGateVars

----------------------------------------------------------------------------
(* serverx-rs: the round trip of a handler to the store                     *)
(* health sends PING, download writes the session (SETEX), stream reads it  *)
(* (GET); each does so on the one connection behind the mutex.              *)

StoreOps == {"health", "download", "stream"}

\* the handler has come to redis.lock().await
StoreLock(h, op) ==
    /\ conn.pos[h] = "idle"
    /\ conn' = [conn EXCEPT !.pos[h] = "lock", !.op[h] = op]
    /\ UNCHANGED <<clock, px, req>>
    /\ UNCHANGED nonGateVars

\* the guard is handed to the handler, which sends its command with it and
\* awaits the reply: query_async(&mut *redis_guard).await,
\* store_formats_in_session(&mut *redis_guard, ..).await,
\* get_session_from_redis(&mut *redis_guard, ..).await
StoreSend(h) ==
    /\ conn.pos[h] = "lock"
    /\ conn.holder = 0
    /\ conn' = [conn EXCEPT !.holder = h, !.pos[h] = "await"]
    /\ UNCHANGED <<clock, px, req>>
    /\ UNCHANGED nonGateVars

\* the store has answered or the request has failed; the guard is dropped
\* (drop(redis_guard), the end of the block, or the return)
StoreReply(h, reply_ok) ==
    /\ conn.pos[h] = "await"
    /\ conn.holder = h
    /\ conn' = [conn EXCEPT !.holder = 0,
                            !.pos[h] = IF reply_ok THEN "ok" ELSE "failed"]
    /\ UNCHANGED <<clock, px, req>>
    /\ UNCHANGED nonGateVars

\* the handler has answered its request
StoreReturn(h) ==
    /\ conn.pos[h] \in {"ok", "failed"}
    /\ conn' = [conn EXCEPT !.pos[h] = "idle", !.op[h] = "none"]
    /\ UNCHANGED <<clock, px, req>>
    /\ UNCHANGED nonGateVars

StoreMaxClock == StoreTicks * MsPerSec

\* the round trip to the store takes time
StoreTick ==
    /\ \E h \in StoreHandlers : conn.pos[h] = "await"
    /\ clock + MsPerSec <= StoreMaxClock
    /\ clock' = clock + MsPerSec
    /\ UNCHANGED stateVars

----------------------------------------------------------------------------
(* Initial states and specifications                                       *)

CodecStateInit ==
    /\ booted = FALSE
    /\ encryption_key = <<>>
    /\ issued = FALSE
    /\ plain = <<>>
    /\ expiry = NoExpiry
    /\ issuedAt = 0
    /\ token = NoToken
    /\ presented = <<>>
    /\ decrypted = FALSE
    /\ decKey = <<>>
    /\ decAt = 0
    /\ result = NoResult
    /\ cleanResult = NoResult
    /\ wasExpired = FALSE

VpnInit ==
    /\ clock = VpnStart
    /\ CodecStateInit
    /\ VpnStateInit
    /\ FleetStateInit
    /\ CacheStateInit
    /\ GateStateInit

VpnNext ==
    \/ \E p \in Callers : Acquire(p)
    \/ \E p \in Callers : CheckAndRecord(p)
    \/ \E p \in Callers, built \in BOOLEAN : Dispatch(p, built)
    \/ \E p \in Callers, outcome \in Outcomes : Respond(p, outcome)
    \/ \E p \in Callers : AcquireForReset(p)
    \/ \E p \in Callers : Reset(p)
    \/ \E p \in Callers : Finish(p)
    \/ VpnTick

SpecVpn == VpnInit /\ [][VpnNext]_vars

CodecInit ==
    /\ VpnStateInit
    /\ FleetStateInit
    /\ CacheStateInit
    /\ GateStateInit
    /\ clock = 0
    /\ booted = FALSE
    /\ encryption_key = <<>>
    /\ issued = FALSE
    /\ plain = <<>>
    /\ expiry = NoExpiry
    /\ issuedAt = 0
    /\ token = NoToken
    /\ presented = <<>>
    /\ decrypted = FALSE
    /\ decKey = <<>>
    /\ decAt = 0
    /\ result = NoResult
    /\ cleanResult = NoResult
    /\ wasExpired = FALSE

CodecNext ==
    \/ \E env \in EnvKeys \cup {Unset} : FromEnv(env)
    \/ \E text \in Texts(MaxLen), minutes \in ExpiryChoices : Encrypt(text, minutes)
    \/ \E key \in DecryptKeys : Decrypt(key)
    \/ \E d \in TickSteps : Tick(d)

SpecCodec == CodecInit /\ [][CodecNext]_vars

----------------------------------------------------------------------------
(* The tamper specification: a booted server, short texts, every           *)
(* replacement of one token character                                      *)

TamperKeys == {<<107>>, <<107, 106>>}

TamperExpiry == {NoExpiry, 1}

TamperSymbols == 0..B64Invalid

TamperInit ==
    /\ VpnStateInit
    /\ FleetStateInit
    /\ CacheStateInit
    /\ GateStateInit
    /\ clock = 0
    /\ booted = TRUE
    /\ encryption_key \in TamperKeys
    /\ issued = FALSE
    /\ plain = <<>>
    /\ expiry = NoExpiry
    /\ issuedAt = 0
    /\ token = NoToken
    /\ presented = <<>>
    /\ decrypted = FALSE
    /\ decKey = <<>>
    /\ decAt = 0
    /\ result = NoResult
    /\ cleanResult = NoResult
    /\ wasExpired = FALSE

TamperNext ==
    \/ \E text \in Texts(TamperMaxLen), minutes \in TamperExpiry : Encrypt(text, minutes)
    \/ \E i \in 1..Len(presented), sym \in TamperSymbols : Tamper(i, sym)
    \/ Decrypt(encryption_key)
    \/ Tick(SecsPerMinute * MsPerSec)

SpecTamper == TamperInit /\ [][TamperNext]_vars

----------------------------------------------------------------------------
(* The fleet specification: concurrent calls into one VpnManager           *)

FleetOps == {"status", "reconnect", "rotate", "handle"}

\* the countries a caller of rotate_server names: none, or one of its own
GivenCountries == {"none", "Japan"}

FleetInit ==
    /\ clock = FleetStart
    /\ CodecStateInit
    /\ VpnStateInit
    /\ FleetStateInit
    /\ CacheStateInit
    /\ GateStateInit

FleetNext ==
    \/ \E c \in FleetCallers, op \in FleetOps, id \in FleetIds, given \in GivenCountries :
          FleetCall(c, op, id, given)
    \/ \E c \in FleetCallers, built \in BOOLEAN : GetStatusBegin(c, built)
    \/ \E c \in FleetCallers, outcome \in StatusOutcomes : StatusRespond(c, outcome)
    \/ \E c \in FleetCallers, outcome \in Outcomes : IpRespond(c, outcome)
    \/ \E c \in FleetCallers, built \in BOOLEAN : ReconnectBegin(c, built)
    \/ \E c \in FleetCallers, outcome \in Outcomes : StopRespond(c, outcome)
    \/ \E c \in FleetCallers : SendStart(c)
    \/ \E c \in FleetCallers, outcome \in Outcomes : StartRespond(c, outcome)
    \/ \E c \in FleetCallers, built \in BOOLEAN : RotateBegin(c, built)
    \/ \E c \in FleetCallers, outcome \in Outcomes : SettingsRespond(c, outcome)
    \/ \E c \in FleetCallers : FleetFinish(c)
    \/ FleetTick

SpecFleet == FleetInit /\ [][FleetNext]_vars

----------------------------------------------------------------------------
(* The cache specification: one extraction result, time up to and past     *)
(* the time to live                                                        *)

CacheInfos ==
    {[is_playlist |-> FALSE,
      formats |-> <<[format_id |-> "hd", url |-> "v1", kind |-> "video", size |-> 2,
                     resolution |-> "720x1280", headers |-> {}],
                    [format_id |-> "audio", url |-> "a1", kind |-> "audio", size |-> 1,
                     resolution |-> "audio only", headers |-> {}]>>,
      entries |-> <<>>]}

\* the session ids a /stream request names: issued ones and one never issued
StreamIds == 1..(MaxSessions + 1)

CacheFormatIds == {"hd", "best", "sd"}

CacheInit ==
    /\ clock = 0
    /\ CodecStateInit
    /\ VpnStateInit
    /\ FleetStateInit
    /\ redis_on \in BOOLEAN
    /\ CacheFieldsInit
    /\ GateStateInit

CacheNext ==
    \/ \E url \in Urls, reply_ok \in BOOLEAN, extracted \in Data \cup ExtractErrors,
          set_ok \in BOOLEAN : Fetch(url, reply_ok, extracted, set_ok)
    \/ \E info \in CacheInfos, extracted \in {"ok"} \cup ExtractErrors, set_ok \in BOOLEAN :
          Download(info, extracted, set_ok)
    \/ \E id \in StreamIds, format_id \in CacheFormatIds, reply_ok \in BOOLEAN,
          up \in {"200", "error"} : Stream(id, format_id, reply_ok, up)
    \/ CacheTick

SpecCache == CacheInit /\ [][CacheNext]_vars

----------------------------------------------------------------------------
(* The formats specification: every small extraction result                *)

FormatIds == {"orig", "hd"}

FormatUrls == {"u1", "u2"}

Kinds == {"video", "audio", "image"}

\* here, every format has a resolution and no headers of its own
RawFormats ==
    [format_id : FormatIds, url : FormatUrls, kind : Kinds, size : 1..MaxSize,
     resolution : {"720x1280"}, headers : {{}}]

\* the formats of a playlist entry: none or one, an image or a video
EntryFormats ==
    {<<>>} \cup {<<f>> : f \in {g \in RawFormats : g.kind # "audio" /\ g.size = 1}}

SeqsUpTo(S, n) == UNION {[1..k -> S] : k \in 0..n}

\* the extractor gives the formats of one list different format_ids
UniqueIds(fmts) ==
    \A i \in 1..Len(fmts), j \in 1..Len(fmts) :
        fmts[i].format_id = fmts[j].format_id => i = j

Infos ==
    [is_playlist : BOOLEAN,
     formats : {fmts \in SeqsUpTo(RawFormats, MaxFormats) : UniqueIds(fmts)},
     entries : SeqsUpTo(EntryFormats, MaxEntries)]

FormatsInit ==
    /\ clock = 0
    /\ CodecStateInit
    /\ VpnStateInit
    /\ FleetStateInit
    /\ CacheStateInit
    /\ GateStateInit

FormatsNext ==
    \/ /\ next_sid <= MaxSessions
       /\ \E info \in Infos : Download(info, "ok", TRUE)
    \/ \E id \in StreamIds, format_id \in FormatIds \cup {"best"} :
          Stream(id, format_id, TRUE, "200")

SpecFormats == FormatsInit /\ [][FormatsNext]_vars

----------------------------------------------------------------------------
(* The proxy specification: requests to the token-addressed proxy of        *)
(* serverrs, or a session of serverx-rs and requests to its proxy. The two  *)
(* servers are separate programs that share no state, so a run follows one  *)
(* of them.                                                                 *)

GzipHeader == <<"accept-encoding", "gzip">>

\* formats with and without a resolution, of every kind, one with a header
\* of its own
ProxyRaws ==
    {[format_id |-> "hd", url |-> "v1", kind |-> "video", size |-> 2,
      resolution |-> "720x1280", headers |-> {}],
     [format_id |-> "sd", url |-> "v2", kind |-> "video", size |-> 1,
      resolution |-> "", headers |-> {GzipHeader}],
     [format_id |-> "audio", url |-> "a1", kind |-> "audio", size |-> 1,
      resolution |-> "audio only", headers |-> {}],
     [format_id |-> "thumb", url |-> "i1", kind |-> "image", size |-> 1,
      resolution |-> "100x100", headers |-> {}],
     [format_id |-> "orig", url |-> "i2", kind |-> "image", size |-> 2,
      resolution |-> "", headers |-> {}]}

ProxyInfos ==
    [is_playlist : {FALSE},
     formats : {fmts \in SeqsUpTo(ProxyRaws, MaxFormats) : UniqueIds(fmts)},
     entries : {<<>>}]

ProxyFormatIds == {"best", "best_audio", "best_image", "hd", "sd", "nope"}

DataKinds == {"empty", "undecryptable", "not_json", "json"}

Payloads ==
    [author : {"absent", "", "bob"},
     type : {"absent", "", "video", "mp3", "audio", "image", "gif"},
     url : {"absent", "", "cdn"},
     http_headers : {AbsentHeaders, GivenHeaders({}), GivenHeaders({GzipHeader})}]

\* formats as the extractor gives them: two images (one without a url), the
\* audio, three videos (one without a url) and the download format
ResponseRaws ==
    {[format_id |-> "image-0", url |-> "i1", vcodec |-> "absent", acodec |-> "absent",
      height |-> 0, width |-> 0, headers |-> {}, cookies |-> "absent"],
     [format_id |-> "image-1", url |-> "absent", vcodec |-> "absent", acodec |-> "absent",
      height |-> 0, width |-> 0, headers |-> {}, cookies |-> "absent"],
     [format_id |-> "audio", url |-> "a1", vcodec |-> "none", acodec |-> "mp3",
      height |-> 0, width |-> 0, headers |-> {}, cookies |-> "c=1"],
     [format_id |-> "h264_720p", url |-> "v1", vcodec |-> "h264", acodec |-> "aac",
      height |-> 1280, width |-> 720, headers |-> {GzipHeader}, cookies |-> "absent"],
     [format_id |-> "h264_540p", url |-> "absent", vcodec |-> "h264", acodec |-> "aac",
      height |-> 540, width |-> 960, headers |-> {}, cookies |-> "c=1"],
     [format_id |-> "h264_480p", url |-> "v2", vcodec |-> "h264", acodec |-> "aac",
      height |-> 480, width |-> 854, headers |-> {}, cookies |-> "absent"],
     [format_id |-> "download", url |-> "v3", vcodec |-> "h264", acodec |-> "aac",
      height |-> 1024, width |-> 576, headers |-> {}, cookies |-> "absent"]}

ResponseInfos ==
    [uploader : {"absent", "", "bob"},
     channel : {"absent", "chan"},
     formats : {fmts \in SeqsUpTo(ResponseRaws, MaxFormats) : UniqueIds(fmts)}]

ProxyInit ==
    /\ clock = 0
    /\ CodecStateInit
    /\ VpnStateInit
    /\ FleetStateInit
    /\ CacheStateInit
    /\ GateStateInit

ProxyNext ==
    \/ /\ px = NoProxied
       /\ next_sid <= MaxSessions
       /\ \E info \in ProxyInfos : Download(info, "ok", TRUE)
    \/ /\ px = NoProxied
       /\ \E id \in StreamIds, format_id \in ProxyFormatIds, reply_ok \in BOOLEAN,
             up \in UpstreamReplies : Stream(id, format_id, reply_ok, up)
    \/ /\ dl = NoDownload
       /\ st = NoStream
       /\ \E handler \in {"download", "stream"}, data \in DataKinds,
             payload \in Payloads, up \in UpstreamReplies :
             Proxied(handler, data, payload, up)
    \/ /\ dl = NoDownload
       /\ st = NoStream
       /\ \E data \in ResponseInfos :
             \E link \in generate_json_response(data), up \in UpstreamReplies :
                 Follow(link, up)

SpecProxy == ProxyInit /\ [][ProxyNext]_vars

----------------------------------------------------------------------------
(* The block specification: extractions that fail, the failover that a      *)
(* block signal sets off in serverrs, or the same errors in serverx-rs      *)

BlockMessages == SeqsUpTo(Phrases, MaxPhrases)

\* the tasks that serve requests here
BlockCallers == 1..NBlockCallers

BlockInfos == CacheInfos

BlockInit ==
    /\ clock = VpnStart
    /\ CodecStateInit
    /\ VpnStateInit
    /\ FleetStateInit
    /\ CacheStateInit
    /\ GateStateInit

BlockNext ==
    \/ /\ dl = NoDownload
       /\ \E p \in BlockCallers :
             /\ pc[p] = "idle"
             /\ req[p].stage # "trigger"
             /\ \E url \in Urls, msg \in BlockMessages : FetchFailed(p, url, TRUE, msg)
    \/ \E p \in BlockCallers : req[p].stage = "trigger" /\ Acquire(p)
    \/ \E p \in BlockCallers : CheckAndRecord(p)
    \/ \E p \in BlockCallers, built \in BOOLEAN : Dispatch(p, built)
    \/ \E p \in BlockCallers, outcome \in Outcomes : Respond(p, outcome)
    \/ \E p \in BlockCallers : AcquireForReset(p)
    \/ \E p \in BlockCallers : Reset(p)
    \/ \E p \in BlockCallers : FetchAnswer(p)
    \/ \E p \in BlockCallers : req[p].stage = "answered" /\ Finish(p)
    \/ /\ req = [p \in Callers |-> NoRequest]
       /\ clock = VpnStart
       /\ \E info \in BlockInfos, msg \in BlockMessages :
             Download(info, classify(msg), TRUE)
    \/ /\ dl = NoDownload
       /\ VpnTick

SpecBlock == BlockInit /\ [][BlockNext]_vars

----------------------------------------------------------------------------
(* The store specification: handlers of serverx-rs at the store connection  *)

StoreInit ==
    /\ clock = 0
    /\ CodecStateInit
    /\ VpnStateInit
    /\ FleetStateInit
    /\ CacheStateInit
    /\ GateStateInit

StoreNext ==
    \/ \E h \in StoreHandlers, op \in StoreOps : StoreLock(h, op)
    \/ \E h \in StoreHandlers : StoreSend(h)
    \/ \E h \in StoreHandlers, reply_ok \in BOOLEAN : StoreReply(h, reply_ok)
    \/ \E h \in StoreHandlers : StoreReturn(h)
    \/ StoreTick

SpecStore == StoreInit /\ [][StoreNext]_vars

----------------------------------------------------------------------------
(* Properties of the codec                                                 *)

Untampered == presented = token.token

\* decrypt was called on the token as issued, with the key that produced it
SameKeyDecrypt ==
    /\ decrypted
    /\ Untampered
    /\ Len(encryption_key) > 0
    /\ decKey = encryption_key

\* C1: a token made without expiry decodes, under the key that made it, to
\* exactly the text that was encoded, whatever that text is (also a text
\* with a '|' in it).
C1_RoundTripNoExpiry ==
    (SameKeyDecrypt /\ expiry = NoExpiry) => result = Res("Ok", plain)

\* C2: a token made with an expiry of m >= 1 minutes, decoded under the key
\* that made it no later than the embedded expiry second, yields exactly the
\* text that was encoded: the timestamp prefix is gone, the rest is intact.
C2_RoundTripWithExpiry ==
    (/\ SameKeyDecrypt
     /\ expiry >= 1
     /\ decAt \div 1000 <= (issuedAt \div 1000) + 60 * expiry)
    => result = Res("Ok", plain)

\* C2 witness: a text "1|..." that itself holds digits and a pipe came back
\* intact from a token with an expiry, some time after it was issued.
C2_Witness ==
    /\ SameKeyDecrypt
    /\ expiry >= 1
    /\ decAt > issuedAt
    /\ Len(plain) >= 2 /\ plain[1] = ChZero + 1 /\ plain[2] = ChPipe
    /\ result = Res("Ok", plain)

C3_RejectedAfterOneSecond ==
    (SameKeyDecrypt /\ expiry = 0 /\ decAt >= issuedAt + 1000)
    => result.kind = "Expired"

C3_StaysRejected ==
    (SameKeyDecrypt /\ wasExpired) => result.kind = "Expired"

\* C3: a token made with Some(0) at time t is rejected as expired by every
\* decrypt at a time >= t + 1 s, and a token that is rejected as expired at
\* one time is rejected as expired at every later time.
C3_TokenExpiry == C3_RejectedAfterOneSecond /\ C3_StaysRejected

\* C3 witness: a Some(0) token was decoded one second or more after it was
\* made, and was rejected as expired.
C3_Witness ==
    /\ SameKeyDecrypt
    /\ expiry = 0
    /\ decAt >= issuedAt + 1000
    /\ Len(plain) > 0
    /\ decAt < clock
    /\ wasExpired
    /\ result.kind = "Expired"

\* C4: decoding a token of a non-empty text with any other non-empty key
\* never returns the text that was encoded.
C4_WrongKeyNeverOriginal ==
    (/\ decrypted
     /\ Untampered
     /\ expiry = NoExpiry
     /\ Len(plain) > 0
     /\ Len(encryption_key) > 0
     /\ Len(decKey) > 0
     /\ decKey # encryption_key)
    => result # Res("Ok", plain)

\* C5: a token with one character changed is never accepted with the
\* payload the unchanged token decodes to: decoding it fails or yields a
\* different text.
C5_TamperDetected ==
    (/\ decrypted
     /\ ~Untampered
     /\ decKey = encryption_key
     /\ cleanResult.kind = "Ok")
    => (result.kind # "Ok" \/ result.text # cleanResult.text)

\* C6: an empty encryption key never gets past startup, so that no encrypt
\* or decrypt call runs (and fails) with an empty key.
C6_EmptyKeyRejected ==
    /\ booted => Len(encryption_key) > 0
    /\ issued => token.kind # "Panic"
    /\ decrypted => result.kind # "Panic"

----------------------------------------------------------------------------
(* Properties of the local VPN failover                                    *)

\* the call has been through the check under the lock
Checked(p) == pc[p] \notin {"idle", "locked"}

\* the check let the call through: it recorded an attempt
Admitted(p) == Checked(p) /\ attempt[p] > 0

\* two calls whose checks are less than the cooldown apart
InOneWindow(p, q) ==
    /\ p # q
    /\ Checked(p)
    /\ Checked(q)
    /\ sigAt[p] - sigAt[q] < VPN_RECONNECT_COOLDOWN * 1000
    /\ sigAt[q] - sigAt[p] < VPN_RECONNECT_COOLDOWN * 1000

\* C7: of the block signals that are checked within 30 s of each other, no
\* two are let through, and each one that is not let through returns
\* Ok(false) and sends nothing to the control API.
C7_OneReconnectPerCooldown ==
    \A p \in Callers, q \in Callers :
        InOneWindow(p, q) =>
            /\ ~(Admitted(p) /\ Admitted(q))
            /\ ~Admitted(q) => (ret[q] = "OkFalse" /\ ~dispatched[q])

\* C7 as amended: of the block signals that are checked within 30 s of each
\* other, no two are let through, and each one that is not let through sends
\* nothing to the control API and returns Ok(false), or the max-attempts
\* error when the counter stood at the ceiling.
C7_OneReconnectPerCooldownAmended ==
    \A p \in Callers, q \in Callers :
        InOneWindow(p, q) =>
            /\ ~(Admitted(p) /\ Admitted(q))
            /\ ~Admitted(q) => (ret[q] \in {"OkFalse", "ErrMax"} /\ ~dispatched[q])
            /\ dispatched[q] => Admitted(q)

\* C7 witness: one signal was let through and sent its request, and another
\* signal of the same window was turned away with the max-attempts error.
C7_Witness ==
    \E p \in Callers, q \in Callers :
        /\ InOneWindow(p, q)
        /\ Admitted(p)
        /\ dispatched[p]
        /\ ret[q] = "ErrMax"

\* C8: once three attempts in a row have failed, the check of every further
\* signal ends the call with the max-attempts error, sends nothing and leaves
\* the state as it was, whether or not the cooldown has run out.
C8_CeilingAfterThreeFailures ==
    [][\A p \in Callers :
          (fails >= 3 /\ pc[p] = "locked" /\ pc'[p] # "locked") =>
              /\ pc'[p] = "done"
              /\ ret'[p] = "ErrMax"
              /\ ~dispatched'[p]
              /\ attempts' = attempts
              /\ last_reconnect' = last_reconnect]_vars

\* C9: the attempts counter stays between 0 and the ceiling.
C9_AttemptsWithinCeiling ==
    attempts \in 0..3

\* C9 witness: the counter stands at the ceiling while two attempts are
\* under way at once.
C9_Witness ==
    /\ attempts = 3
    /\ \E p \in Callers, q \in Callers :
          p # q /\ pc[p] \in {"backoff", "call"} /\ pc[q] \in {"backoff", "call"}

\* C10: the attempts counter goes down only to 0, and only in the step in
\* which a call whose request was answered with a success status resets it.
C10_ResetOnlyOnSuccess ==
    [][attempts' < attempts =>
          /\ attempts' = 0
          /\ \E p \in Callers :
                /\ dispatched[p]
                /\ response[p] = "success"
                /\ pc[p] = "resetting"
                /\ pc'[p] = "done"
                /\ ret'[p] = "OkTrue"]_vars

\* C10 witness: a call answered with a success status has reset a counter
\* that stood at 2 or more.
C10_Witness ==
    \E p \in Callers :
        /\ pc[p] = "done"
        /\ ret[p] = "OkTrue"
        /\ response[p] = "success"
        /\ attempt[p] >= 2
        /\ attempts = 0

\* the two conditions of admission, on the state the check reads
AdmissionGuard ==
    /\ attempts < VPN_MAX_RECONNECT_ATTEMPTS
    /\ clock - last_reconnect >= VPN_RECONNECT_COOLDOWN * MsPerSec

\* C11: the check lets a signal through only when attempts < 3 and at least
\* 30 s have passed since last_reconnect; a signal the check turns away
\* returns without a request, and only a signal that was let through ever
\* sends one.
C11_AdmissionGuard ==
    [][\A p \in Callers :
          /\ (pc[p] = "locked" /\ pc'[p] # "locked") =>
                 IF AdmissionGuard
                 THEN pc'[p] = "backoff"
                 ELSE pc'[p] = "done" /\ ~dispatched'[p]
          /\ (pc[p] # "backoff" /\ pc'[p] = "backoff") =>
                 pc[p] = "locked" /\ AdmissionGuard
          /\ (~dispatched[p] /\ dispatched'[p]) => pc[p] = "backoff"]_vars

\* C11 witness: a second attempt was let through and has sent its request,
\* and a later signal was turned away by the cooldown without sending one.
C11_Witness ==
    \E p \in Callers, q \in Callers :
        /\ pc[p] = "call"
        /\ attempt[p] = 2
        /\ pc[q] = "done"
        /\ ret[q] = "OkFalse"
        /\ attempt[q] = 0
        /\ ~dispatched[q]
        /\ sigAt[q] > sigAt[p]

\* C12: when the request of an attempt completes with a failure, the counter
\* is then not below the value that attempt recorded when it was let through.
C12_FailureKeepsCounter ==
    [][\A p \in Callers :
          (pc[p] = "call" /\ pc'[p] = "done") => attempts' >= attempt[p]]_vars

\* an attempt is in flight from its admission to the end of its request
InFlight(p) == pc[p] \in {"backoff", "call"}

\* C13: at no time are two reconnect attempts of the instance in flight.
C13_OneAttemptInFlight ==
    \A p \in Callers, q \in Callers : (InFlight(p) /\ InFlight(q)) => p = q

----------------------------------------------------------------------------
(* Properties of the VpnManager                                            *)

\* an instance id that a caller passes and that is not configured
Unknown(id) == id \in FleetIds /\ id \notin DOMAIN instances

\* C14: a call with an instance id that is not configured sends no request,
\* returns None (get_instance_status) or false (the other three), and no step
\* of it changes the cooldown map or an instance's country.
C14_UnknownInstanceFailFast ==
    [][\A c \in FleetCallers :
          /\ Unknown(fid'[c]) =>
                 /\ trace'[c] = <<>>
                 /\ fpc'[c] = "done" =>
                        fret'[c] = (IF fop'[c] = "status" THEN "None" ELSE "false")
          /\ (Unknown(fid[c]) /\ fpc'[c] # fpc[c]) =>
                 /\ fleet_last' = fleet_last
                 /\ country' = country]_vars

\* C14 witness: handle_403_error with an unknown id has been through
\* reconnect_vpn and rotate_server and has returned false without a request.
C14_Witness ==
    \E c \in FleetCallers :
        /\ Unknown(fid[c])
        /\ fop[c] = "handle"
        /\ rotating[c]
        /\ fpc[c] = "done"
        /\ fret[c] = "false"
        /\ trace[c] = <<>>
        /\ fleet_last = [k \in {} |-> 0]

\* event b comes after event a in the sequence
After(seq, a, b) ==
    \E i \in 1..Len(seq), j \in 1..Len(seq) : i < j /\ seq[i] = a /\ seq[j] = b

\* C15: a call in which rotate_server changed the country has, by the time
\* it returns, sent the stop request of a reconnect after the change (unless
\* no HTTP client could be built for it).
C15_RotationReconnects ==
    \A c \in FleetCallers :
        (/\ fpc[c] = "done"
         /\ \E i \in 1..Len(trace[c]) : trace[c][i] = "rotated"
         /\ ~After(trace[c], "rotated", "client_error"))
        => After(trace[c], "rotated", "stop")

\* the configured instance that carries the name
Owner(n) == CHOOSE j \in DOMAIN instances : instances[j].name = n

Names == {instances[j].name : j \in DOMAIN instances}

\* C16: the target that rotate_server picks when no country is given is the
\* name of another configured region, and following the targets from region
\* to region runs through all three and comes back to the first.
C16_DefaultTargetCycle ==
    \A c \in FleetCallers :
        (rotating[c] /\ fid[c] \in DOMAIN instances /\ new_country[c] = "none") =>
            LET own == instances[fid[c]].name
                t1 == target[c]
                t2 == DefaultTarget(instances[Owner(t1)].region)
                t3 == DefaultTarget(instances[Owner(t2)].region)
            IN  /\ t1 \in Names
                /\ t1 # own
                /\ t2 \in Names
                /\ {t1, t2, t3} = Names
                /\ t3 = own

\* C16 witness: handle_403_error, gone on to rotate_server without a country,
\* has moved the instance of region usa to Singapore.
C16_Witness ==
    \E c \in FleetCallers :
        /\ fop[c] = "handle"
        /\ rotating[c]
        /\ fid[c] = "instance-us"
        /\ target[c] = "Singapore"
        /\ country["instance-us"] = "Singapore"

----------------------------------------------------------------------------
(* Properties of the caches                                                *)

Absent == {"never", "expired", "error"}

\* C17: a lookup of a key that was never written, whose time to live is
\* over, or for which the store answers with an error gives the same: the
\* metadata lookup gives None and the request goes on to the extractor, the
\* session lookup gives None and /stream answers 410; a hit is the only
\* other outcome.
C17_UniformAbsent ==
    /\ fetch.cause \in Absent =>
           /\ fetch.cached = None
           /\ fetch.extracted # "skipped"
    /\ fetch.cause = "hit" => (fetch.cached.some /\ fetch.response = "Ok")
    /\ st.cause \in Absent => (~st.found /\ st.status = 410)
    /\ st.cause = "hit" => (st.found /\ st.status # 410)

\* C17 witness: a session whose time to live was over was answered 410, and
\* a metadata lookup that the store answered with an error was followed by
\* an extraction and a successful response.
C17_Witness ==
    /\ st.cause = "expired"
    /\ st.status = 410
    /\ fetch.cause = "error"
    /\ fetch.cached = None
    /\ fetch.response = "Ok"

\* C18: a request whose extraction succeeded and whose write to the store
\* failed is answered with the extraction result: Ok from fetch_tiktok_data,
\* 200 from /download.
C18_PutFailureNotFatal ==
    /\ fetch.stored = "failed" => (fetch.response = "Ok" /\ fetch.data \in Data)
    /\ dl.stored = "failed" => dl.status = 200

\* C19: a /stream request for the session that /download wrote, answered by
\* the store, finds it exactly while less than 300 s have passed since the
\* write, is answered 410 from then on, and leaves the records of the store
\* as they are.
C19_SessionLifetime ==
    [][(st' # st /\ st'.id # 0 /\ st'.id = dl.session_id /\ st'.cause # "error") =>
          /\ st'.found <=> clock < dl.at + 300 * 1000
          /\ ~st'.found => st'.status = 410
          /\ sess' = sess]_vars

\* C19 witness: the session was found 200 s after it was written and was
\* gone, answered 410, at 300 s.
C19_Witness ==
    /\ st.id # 0
    /\ st.id = dl.session_id
    /\ st.cause = "expired"
    /\ st.status = 410
    /\ st.at = dl.at + 300 * 1000

\* C20: a /stream request that names the format_id of a format listed in
\* the response, for the session of that response, gets the url of that
\* format.
C20_FormatIdsResolve ==
    \A f \in dl.listed :
        (/\ st.id = dl.session_id
         /\ st.cause = "hit"
         /\ st.format = f.format_id)
        => (st.status = 200 /\ st.descriptor.url = f.url)

----------------------------------------------------------------------------
(* Properties of the proxies                                               *)

\* the descriptors of a session that a format parameter asks for
Qualifies(format_id, k, f) ==
    CASE format_id = "best" -> f.resolution # "" /\ f.resolution # "audio only"
      [] format_id = "best_audio" -> f.resolution = "audio only"
      [] format_id = "best_image" -> f.content_type \in {"image/jpeg"}
      [] OTHER -> k = format_id

\* C21: for a session that /stream has read, "best" gets a descriptor with a
\* resolution that is neither empty nor "audio only", "best_audio" one whose
\* resolution is "audio only", "best_image" one whose content type is an
\* image type, any other id the descriptor stored under that id; when the
\* session has no such descriptor the answer is 400 FORMAT_NOT_FOUND, and
\* only then.
C21_FormatResolution ==
    st.found =>
        LET Q == {k \in DOMAIN st.formats : Qualifies(st.format, k, st.formats[k])}
        IN  IF Q = {}
            THEN st.status = 400 /\ st.body = "FORMAT_NOT_FOUND"
                 /\ st.descriptor = NoDescriptor
            ELSE st.body # "FORMAT_NOT_FOUND"
                 /\ \E k \in Q : st.descriptor = st.formats[k]

\* C21 witness: of a session with a video without resolution and a video
\* with one, "best" got the second.
C21_Witness ==
    /\ st.found
    /\ st.format = "best"
    /\ DOMAIN st.formats = {"hd", "sd"}
    /\ st.formats["sd"].resolution = ""
    /\ st.descriptor = st.formats["hd"]
    /\ st.status = 200

\* C22: a /stream request whose session the store does not give (never
\* written, time to live over, or an error of the store) is answered 410
\* SESSION_EXPIRED; one whose session is there but has no descriptor for the
\* format parameter is answered 400 FORMAT_NOT_FOUND; neither answer is
\* given in the other case.
C22_GoneVersusNotFound ==
    LET Q == {k \in DOMAIN st.formats : Qualifies(st.format, k, st.formats[k])}
    IN  /\ st.cause \in {"never", "expired", "error"} =>
               (st.status = 410 /\ st.body = "SESSION_EXPIRED")
        /\ (st.cause = "hit" /\ Q = {}) =>
               (st.status = 400 /\ st.body = "FORMAT_NOT_FOUND")
        /\ (st.status = 410 \/ st.body = "SESSION_EXPIRED") => st.cause # "hit"
        /\ (st.status = 400 \/ st.body = "FORMAT_NOT_FOUND") => st.cause = "hit"

\* C22 witness: the session that /download wrote was asked for a format it
\* does not hold, which was answered 400 FORMAT_NOT_FOUND.
C22_Witness ==
    /\ st.id # 0
    /\ st.id = dl.session_id
    /\ st.cause = "hit"
    /\ st.format = "sd"
    /\ st.status = 400
    /\ st.body = "FORMAT_NOT_FOUND"

NonSuccess == {"403", "500"}

\* C23: a request to either proxy whose upstream GET was answered with a
\* status that is not a success gets 502, with the upstream status in the
\* body where the proxy reports one, and never the upstream body.
C23_UpstreamFailureBadGateway ==
    /\ px.answer.upstream \in NonSuccess =>
           /\ px.answer.status = 502
           /\ px.answer.body_status = px.answer.upstream
           /\ px.answer.body # "upstream body"
    /\ st.upstream \in NonSuccess =>
           /\ st.status = 502
           /\ st.body # "upstream body"

\* C24: a /download or /stream request of serverrs whose upstream answers
\* 403 gets the 502 of an unavailable upstream, and in the same step a call
\* of trigger_local_vpn_reconnect begins for it.
C24_Proxy403TriggersFailover ==
    [][(px' # px /\ px'.answer.upstream = "403") =>
          /\ px'.answer.status = 502
          /\ \/ vpnVars' # vpnVars
             \/ \E p \in Callers : req'[p].stage = "trigger" /\ req[p].stage # "trigger"]_vars

\* C25: every upstream GET of either proxy has the header
\* Accept-Encoding: identity.
C25_ForcedIdentityEncoding ==
    /\ px.answer.sent => Identity \in px.answer.request_headers
    /\ st.upstream # "none" => Identity \in st.request_headers

\* the content type that goes with a type field
TypeContentType(type) ==
    CASE type = "video" -> "video/mp4"
      [] type \in {"mp3", "audio"} -> "audio/mpeg"
      [] type = "image" -> "image/jpeg"
      [] OTHER -> "application/octet-stream"

\* C26: a /download or /stream request of serverrs that is answered with the
\* media has the content type that goes with the type field of its payload.
C26_TokenContentType ==
    (px.answer.status = 200 /\ px.payload.type # "absent") =>
        px.answer.content_type = TypeContentType(px.payload.type)

\* C27: a /download or /stream request of serverrs whose payload has no
\* author, type or url, or an empty one, is answered 400 and no upstream GET
\* is made for it.
C27_RequiredTokenFields ==
    (/\ px.data = "json"
     /\ \/ px.payload.author \in {"absent", ""}
        \/ px.payload.type \in {"absent", ""}
        \/ px.payload.url \in {"absent", ""})
    => (px.answer.status = 400 /\ ~px.answer.sent)

\* C30: a call of fetch_tiktok_data that finds the url in the metadata
\* cache returns the entry without an extraction and leaves the cache as it
\* is; one that does not find it makes the extraction; the cache is written
\* only after an extraction that gave a result, with that result and a time
\* to live of 300 s.
C30_CacheSkipsExtraction ==
    [][(fetch' # fetch \/ meta' # meta) =>
          /\ fetch'.cause = "hit" =>
                 /\ fetch'.extracted = "skipped"
                 /\ fetch'.response = "Ok"
                 /\ fetch'.data = meta[fetch'.url].value
                 /\ meta' = meta
          /\ fetch'.cause # "hit" => fetch'.extracted # "skipped"
          /\ fetch'.extracted # "ok" => meta' = meta
          /\ meta' # meta =>
                 /\ DOMAIN meta' = DOMAIN meta \cup {fetch'.url}
                 /\ meta'[fetch'.url] = [value |-> fetch'.data,
                                         exp |-> clock + 300 * 1000]]_vars

\* C30 witness: a result was cached, and a later call within 300 s found it
\* and made no extraction.
C30_Witness ==
    /\ fetch.cause = "hit"
    /\ fetch.extracted = "skipped"
    /\ fetch.data = "d1"
    /\ clock > 0

----------------------------------------------------------------------------
(* Properties of the handling of extraction errors                         *)

Unavailable == "Service temporarily unavailable due to IP block, retrying with different endpoint"

\* C28: a request whose extraction failed with the block kind FORBIDDEN is
\* answered 503 with the fixed "temporarily unavailable" text, after one
\* call of the failover controller has returned, whatever it returned; this
\* in both servers.
C28_BlockSignalsIntercepted ==
    /\ \A p \in Callers :
           (req[p].stage = "answered" /\ req[p].kind = "FORBIDDEN") =>
               /\ req[p].status = 503
               /\ req[p].body = Unavailable
               /\ req[p].ret \in {"OkTrue", "OkFalse", "ErrMax", "ErrRequest", "ErrClient"}
    /\ dl.extracted = "FORBIDDEN" => dl.status = 503

\* the message has "403" or, in whatever case, "forbidden" in it
Blocked(msg) == \E i \in DOMAIN msg : msg[i] \in {"403", "Forbidden"}

\* C29: an extractor error whose message has "403" or "forbidden" in it is
\* of the kind FORBIDDEN and sets off the failover, whatever else the
\* message has in it; every message is of exactly one of the five kinds.
C29_BlockDetection ==
    \A p \in Callers :
        req[p].stage # "none" =>
            /\ req[p].kind \in ErrorKinds
            /\ Blocked(req[p].msg) =>
                   /\ req[p].kind = "FORBIDDEN"
                   /\ req[p].stage = "trigger" \/ req[p].ret # "none"

----------------------------------------------------------------------------
(* Properties of the reconnect state                                       *)

\* C31: the step whose check lets a signal through is taken under the lock
\* and writes last_reconnect = now and attempts + 1 in that same step; from
\* the start of the backoff sleep to the end of the request the lock is free
\* and the state shows a last_reconnect no older than the attempt's check.
C31_RecordBeforeActing ==
    [][\A p \in Callers :
          /\ (pc[p] = "locked" /\ pc'[p] = "backoff") =>
                 /\ lock = p
                 /\ last_reconnect' = clock
                 /\ attempts' = attempts + 1
                 /\ attempt'[p] = attempts'
                 /\ ~dispatched'[p]
          /\ pc'[p] \in {"backoff", "call"} =>
                 /\ lock' # p
                 /\ last_reconnect' >= sigAt'[p]
                 /\ attempt'[p] >= 1]_vars

\* C31 witness: while the second attempt is in its backoff sleep, a signal
\* checked after it was turned away by the cooldown that attempt recorded.
C31_Witness ==
    \E p \in Callers, q \in Callers :
        /\ p # q
        /\ pc[p] = "backoff"
        /\ attempt[p] = 2
        /\ clock < deadline[p]
        /\ pc[q] = "done"
        /\ ret[q] = "OkFalse"
        /\ sigAt[q] >= sigAt[p]
        /\ last_reconnect = sigAt[p]

ScheduleSecs == <<0, 10, 20>>

\* C34: the n-th admitted attempt (n = attempts after the increment, 1 to 3)
\* sleeps 0 s for n = 1 and min(5 * 2^(n-1), 20) s for n >= 2, that is 0, 10
\* and 20 s, between its admission and its request to the control API.
C34_BackoffSchedule ==
    [][/\ \A n \in 1..3 :
              ScheduleSecs[n] = IF n = 1 THEN 0 ELSE Min(5 * 2^(n - 1), 20)
       /\ \A p \in Callers :
              /\ pc'[p] = "backoff" =>
                     /\ attempt'[p] \in 1..3
                     /\ deadline'[p] = sigAt'[p] + ScheduleSecs[attempt'[p]] * MsPerSec
              /\ (pc[p] = "backoff" /\ pc'[p] # "backoff") =>
                     clock = sigAt[p] + ScheduleSecs[attempt[p]] * MsPerSec]_vars

\* C34 witness: the third attempt has sent its request 20 s after its
\* admission.
C34_Witness ==
    \E p \in Callers :
        /\ pc[p] = "call"
        /\ attempt[p] = 3
        /\ deadline[p] - RequestTimeout * MsPerSec = sigAt[p] + 20 * MsPerSec

\* C37: a call that returns from its check because the ceiling is reached or
\* the cooldown is active leaves last_reconnect and attempts as they were;
\* from the moment a call holds the lock for its check, the two change only
\* if that call is let through.
C37_SwallowedChangesNothing ==
    [][\A p \in Callers :
          /\ (pc[p] = "locked" /\ pc'[p] = "done") =>
                 /\ ret'[p] \in {"ErrMax", "OkFalse"}
                 /\ ret'[p] = "ErrMax" <=> attempts >= VPN_MAX_RECONNECT_ATTEMPTS
                 /\ last_reconnect' = last_reconnect
                 /\ attempts' = attempts
          /\ (pc[p] = "locked" /\ pc'[p] # "backoff") =>
                 /\ last_reconnect' = last_reconnect
                 /\ attempts' = attempts]_vars

\* C37 witness: one signal was turned away by the cooldown and a later one
\* at the ceiling, and the state still shows the third admission.
C37_Witness ==
    \E p \in Callers, q \in Callers :
        /\ pc[p] = "done" /\ ret[p] = "ErrMax" /\ attempt[p] = 0
        /\ pc[q] = "done" /\ ret[q] = "OkFalse" /\ attempt[q] = 0
        /\ attempts = 3
        /\ last_reconnect < sigAt[p]

\* the counter stands at the ceiling and no admitted attempt is under way
AtCeilingAtRest ==
    /\ attempts = VPN_MAX_RECONNECT_ATTEMPTS
    /\ \A p \in Callers : pc[p] \in {"idle", "locked", "done"}

\* C38: once attempts is 3 and no earlier attempt is still under way, every
\* later step leaves it so: attempts stays 3, no call is let through and no
\* request is sent to the control API, however much time has passed.
C38_CeilingAbsorbing ==
    [][AtCeilingAtRest =>
          /\ AtCeilingAtRest'
          /\ \A p \in Callers :
                /\ dispatched'[p] => dispatched[p]
                /\ (pc[p] = "locked" /\ pc'[p] # "locked") => ret'[p] = "ErrMax"]_vars

\* C38 witness: with the counter at 3 and nothing under way, a signal that
\* came more than a cooldown after the last admission was turned away.
C38_Witness ==
    /\ AtCeilingAtRest
    /\ \E p \in Callers :
          /\ pc[p] = "done"
          /\ ret[p] = "ErrMax"
          /\ sigAt[p] - last_reconnect >= VPN_RECONNECT_COOLDOWN * MsPerSec

----------------------------------------------------------------------------
(* Properties of the fleet operations                                      *)

\* the event before the i-th of a sequence
Prev(seq, i) == IF i > 1 THEN seq[i - 1] ELSE "none"

\* each request of a reconnect follows the success of the one before it
InOrder(seq, op) ==
    \A i \in 1..Len(seq) :
        /\ seq[i] \in {"stop_ok", "stop_failed"} => Prev(seq, i) = "stop"
        /\ seq[i] = "start" => Prev(seq, i) = "stop_ok"
        /\ seq[i] \in {"start_ok", "start_failed"} => Prev(seq, i) = "start"
        /\ (seq[i] = "status" /\ op # "status") => Prev(seq, i) = "start_ok"

\* the last reconnect of the sequence had its stop and its start succeed
BothSucceeded(seq) ==
    \E i \in 1..Len(seq) :
        /\ seq[i] = "start_ok"
        /\ i > 3
        /\ seq[i - 1] = "start"
        /\ seq[i - 2] = "stop_ok"
        /\ seq[i - 3] = "stop"
        /\ \A j \in 1..Len(seq) : j > i => seq[j] \in {"status", "ip", "client_error"}

\* C35: in reconnect_vpn the start request is sent only after the stop
\* request succeeded and 2 s have passed, the status query only after the
\* start request succeeded and 5 s have passed, and the call returns true
\* only if both the stop and the start succeeded.
C35_StrictSequence ==
    [][\A c \in FleetCallers :
          /\ InOrder(trace'[c], fop'[c])
          /\ (fpc[c] # "rc_pause" /\ fpc'[c] = "rc_pause") =>
                 fdeadline'[c] = clock + 2 * MsPerSec
          /\ (fpc[c] = "rc_pause" /\ fpc'[c] # "rc_pause") =>
                 fpc'[c] = "rc_start" /\ clock >= fdeadline[c]
          /\ (fpc[c] # "rc_verify" /\ fpc'[c] = "rc_verify") =>
                 fdeadline'[c] = clock + 5 * MsPerSec
          /\ (fpc[c] = "rc_verify" /\ fpc'[c] # "rc_verify") => clock >= fdeadline[c]
          /\ (fret'[c] = "true" /\ fop'[c] # "status") => BothSucceeded(trace'[c])]_vars

\* C35 witness: a reconnect has stopped, started and verified the instance,
\* in that order, and has returned true.
C35_Witness ==
    \E c \in FleetCallers :
        /\ fop[c] = "reconnect"
        /\ fpc[c] = "done"
        /\ fret[c] = "true"
        /\ trace[c] = <<"stop", "stop_ok", "start", "start_ok", "status", "ip">>

\* the entry of an instance in the cooldown map, 0 when it has none
Entry(last, id) == IF id \in DOMAIN last THEN last[id] ELSE 0

\* the call leaves the entry of reconnect_vpn in this step
LeavesCheck(c) == fpc[c] = "rc_enter" /\ fpc'[c] # "rc_enter"

\* C36: a step of a fleet operation on an instance changes no entry of the
\* cooldown map but that instance's, changes no country but that
\* instance's and leaves the local reconnect state alone; whether
\* reconnect_vpn turns a call away for the cooldown depends on the entry of
\* its own instance only.
C36_InstanceIndependence ==
    [][/\ <<last_reconnect, attempts, lock>>' = <<last_reconnect, attempts, lock>>
       /\ \A k \in FleetIds :
              ((k \in DOMAIN fleet_last') # (k \in DOMAIN fleet_last)
                   \/ Entry(fleet_last', k) # Entry(fleet_last, k)) =>
                  \E c \in FleetCallers :
                      LeavesCheck(c) /\ fid[c] = k /\ fleet_last'[k] = clock
       /\ \A k \in DOMAIN country :
              country'[k] # country[k] =>
                  \E c \in FleetCallers : fpc[c] = "ro_settings" /\ fid[c] = k
       /\ \A c \in FleetCallers :
              (LeavesCheck(c) /\ fid[c] \in DOMAIN instances) =>
                  (fleet_last' = fleet_last <=>
                      clock - Entry(fleet_last, fid[c]) < 30 * MsPerSec)]_vars

\* C36 witness: two instances were reconnected less than a cooldown apart,
\* and both calls were let through to their stop requests.
C36_Witness ==
    \E c \in FleetCallers, e \in FleetCallers :
        /\ fid[c] # fid[e]
        /\ fid[c] \in DOMAIN fleet_last
        /\ fid[e] \in DOMAIN fleet_last
        /\ fleet_last[fid[c]] < fleet_last[fid[e]]
        /\ fleet_last[fid[e]] - fleet_last[fid[c]] < reconnect_cooldown * MsPerSec
        /\ Len(trace[c]) > 0 /\ trace[c][1] = "stop"
        /\ Len(trace[e]) > 0 /\ trace[e][1] = "stop"

----------------------------------------------------------------------------
(* Properties of the store connection                                      *)

\* C33: no handler holds the mutex of the store connection while it awaits
\* the store, so no handler waits for the mutex while another handler's
\* round trip to the store is under way.
C33_NoLockAcrossIO ==
    \A h \in StoreHandlers :
        conn.pos[h] = "await" =>
            /\ conn.holder # h
            /\ \A g \in StoreHandlers : conn.pos[g] # "lock"

----------------------------------------------------------------------------
(* Properties of the selection and of the links                            *)

SpecialIds == {"best", "best_audio", "best_image"}

\* C39: of two /stream requests in a row that name the same session and the
\* same special format id and both find the session, the second resolves to
\* the descriptor the first resolved to.
C39_DeterministicBest ==
    [][(/\ st.found
        /\ st'.found
        /\ st' # st \/ sess' # sess
        /\ st'.id = st.id
        /\ st'.format = st.format
        /\ st.format \in SpecialIds
        /\ st'.formats = st.formats)
          => st'.descriptor = st.descriptor]_vars

\* C40: a link that generate_json_response put into a response, followed
\* before it expires, passes the checks of its endpoint: the request goes on
\* to the CDN and is not answered 400.
C40_EmittedLinksUsable ==
    px.link # "none" =>
        /\ px.answer.sent
        /\ px.answer.status # 400

====
